---- MODULE Spec2Model ----
(***************************************************************************)
(* Model of the clipov upload and analysis back end.                       *)
(*                                                                         *)
(*   SpecUpload    one upload session before finalize: the chunk progress  *)
(*                 report and resume request handlers and the client's     *)
(*                 chunk uploads.                                          *)
(*   SpecFinalize  the finalize request handler with the chunk uploads,    *)
(*                 the background chunk cleanup and the fire-and-forget    *)
(*                 analysis trigger issued by finalize.                    *)
(*   SpecRun       one video: the analysis trigger handler and the         *)
(*                 background pipeline processVideoInBackground with the   *)
(*                 segmenter, segment verification, placeholder batch,     *)
(*                 batched parallel analysis and the aggregate step.       *)
(*   SpecAccess    the upload handlers called by a user who does not own   *)
(*                 the session, next to the owner's own requests.          *)
(*   SpecInitiate  the initiate request handler.                           *)
(*   SpecCall      one inference call of a segment, audio or visual, with  *)
(*                 its attempts and the delays between them.               *)
(*   SpecSegmentWrite  the writes of one segment document.                 *)
(*   SpecTrigger   the owner's finalize requests and the settling of their *)
(*                 trigger fetches, under fairness of the settling.        *)
(*   SpecReport    the progress reports of the upload of a large file.     *)
(*   SpecOwnerReports  the owner's progress reports alone.                 *)
(*   SpecRetry     one run of a short video and the retry requests after   *)
(*                 it, under fairness of the background function.          *)
(*   SpecClient    the chunk uploads of one file by the web client.        *)
(*   SpecConcurrentReports  two progress reports of one session handled    *)
(*                 side by side.                                           *)
(*   SpecSegmentAnalysis  one segment of one run: its placeholder, its two *)
(*                 inference calls and its result write.                   *)
(*   SpecVideoPath  the object path at which finalize composes a video and *)
(*                 the path its analysis downloads.                        *)
(*   SpecTriggers  the trigger requests for one video and the runs they    *)
(*                 start, each run reduced to its updates of the video     *)
(*                 document.                                               *)
(*                                                                         *)
(* Times are whole seconds.  Arrays of the session document are sequences  *)
(* in insertion order, as the handlers build them.                         *)
(***************************************************************************)
EXTENDS Integers, Sequences, FiniteSets, TLC

\* ------------------------------------------------------------------ bounds
\* Largest totalChunks of the modelled session.
MaxChunks == 2
\* Largest number of bucket.combine calls explored for the session.
MaxCompose == 2
\* Largest number of sessions created by initiate.
MaxSessions == 2

VARIABLES
  session,        \* the upload_sessions document of session "s1"
  expired,        \* now > session.expiresAt
  chunkStore,     \* chunk indices whose object exists in the bucket
  finalObjects,   \* composed final objects: <<videoId, size>>
  videos,         \* videos collection: sequence of documents, videoId = index
  composeCalls,   \* number of bucket.combine calls made so far
  cleanupQueue,   \* chunk objects the background cleanup has still to delete
  triggerPending, \* videoIds whose fire-and-forget trigger fetch is in flight
  resp,           \* the response of the request handled by the step just
                  \* taken; op "none" after a step that is not a request
  \* ---- analysis of one video (SpecRun)
  duration,       \* the video's duration as ffprobe reports it, in seconds
  vdoc,           \* the videos document of the analysed video
  pc,             \* position of processVideoInBackground
  runUser,        \* the userId the run was started with
  err,            \* the stage whose exception is being propagated, "" if none
  localFiles,     \* local working files that exist
  segments,       \* the VideoSegment array returned by segmentVideo
  segDocs,        \* segment documents: "placeholder" or "analyzed" per number
  chunkIndex,     \* index of the current analysis batch
  inflight,       \* per segment of the current batch: state of its callbacks
  completedSegments,
  successfulSegments,
  failedSegments,
  started,        \* the stages whose main work has been started
  inferCalls,     \* segments for which the two inference calls were issued
  vseg,           \* verification: the segment being checked (0 before)
  vtries,         \* verification: failed attempts on that segment
  \* ---- initiate requests (SpecInitiate)
  newSessions,    \* session documents created, sessionId = index
  signed,         \* number of write URLs signed by the request handled last
  iresp,          \* the response of the initiate request handled last
  \* ---- one inference call of a segment (SpecCall)
  ckind,          \* "audio" or "visual"; "none" before a call is made
  cstate,         \* "idle", "calling", "ok" (returned) or "failed" (threw)
  ctrace,         \* per attempt made: the service's answer and the delay
                  \* slept after it, in milliseconds
  \* ---- one segment document (SpecSegmentWrite)
  segDoc,         \* the document: field path -> value; no field when absent
  wclock,         \* the value new Date() returns
  wlast,          \* the result write made last: <<audio, visual, again>>,
                  \* again = the document held these results already;
                  \* <<>> when the document was not written since created
  \* ---- the uploader of the web client (SpecClient)
  upTotal,        \* totalChunks of the initiate response; 0 before
  upChunk,        \* per chunk index: where uploadChunkWithProgress(i) stands
  upPc,           \* where uploadFile stands
  upBatch,        \* the loop variable i of executeWithConcurrency
  \* ---- report requests handled side by side (SpecConcurrentReports)
  repPc,          \* per request: "idle", "read" (session read, update not
                  \* yet made) or "returned"
  repArg,         \* per request: <<chunkIndex, status>> of its body
  repSnap,        \* per request: the sessionData its get() returned
  \* ---- trigger requests for one video (SpecTriggers)
  runAt           \* per invocation of processVideoInBackground: 0 not
                  \* started, k the k-th progress update comes next,
                  \* one more the batch loop, RunEnded returned
  ,
  \* ---- the analysis of one segment in stage 9 (SpecSegmentAnalysis)
  audioCall,      \* analyzeAudioSegment: "none", "pending", its result or
                  \* "failed" (threw)
  visualCall,     \* analyzeVideoSegment: likewise
  segResult,      \* the segment's chunk result and what the update callback
                  \* made of it
  \* ---- the object of the assembled video (SpecVideoPath)
  objectPaths,    \* the paths of the composed objects in the bucket
  pathDocs,       \* the video documents created by finalize, videoId = index
  download        \* the downloadVideo call made last: the video, the path
                  \* it read and whether an object was there

uvars == <<session, expired, chunkStore, finalObjects, videos, composeCalls,
           cleanupQueue, triggerPending, resp>>

rvars == <<duration, vdoc, pc, runUser, err, localFiles, segments, segDocs, chunkIndex,
           inflight, completedSegments, successfulSegments, failedSegments,
           started, inferCalls, vseg, vtries>>

ivars == <<newSessions, signed, iresp>>

cvars == <<ckind, cstate, ctrace>>

svars == <<segDoc, wclock, wlast>>

\* The variables of the specifications that stand apart from the upload,
\* the run, initiate and the inference call.
kvars == <<upTotal, upChunk, upPc, upBatch>>

pvars == <<repPc, repArg, repSnap>>

tvars == <<runAt>>

avars == <<audioCall, visualCall, segResult>>

lvars == <<objectPaths, pathDocs, download>>

others == <<svars, kvars, pvars, tvars, avars, lvars>>

vars == <<uvars, rvars, ivars, cvars, others>>

\* ------------------------------------------------------------ input domains
Owner == "u1"
\* The callers and session ids a request is tried with, one per outcome of the
\* handlers' early returns: "anon" has no valid bearer token, "u2" is another
\* user, "sX" is an unknown id and "" a missing field.
Callers == {<<"u1", "s1">>, <<"u2", "s1">>, <<"anon", "s1">>,
            <<"u1", "sX">>, <<"u1", "">>}
ChunkInputs == 0..MaxChunks              \* includes out-of-range indices
StatusInputs == {"completed", "failed", "paused", ""}
ComposeOutcomes == {"ok", "empty", "throws", "absent"}

\* ---------------------------------------------------------------- helpers
Range(s) == {s[i] : i \in 1..Len(s)}

\* Array.prototype.includes
Includes(s, x) == x \in Range(s)

\* Array.prototype.filter(idx => idx !== x)
Without(s, x) == SelectSeq(s, LAMBDA e : e # x)

\* Math.round(a / b) for a >= 0, b > 0: halves round up.
RoundDiv(a, b) == (2 * a + b) \div (2 * b)

\* Math.ceil(a / b) for a >= 0, b > 0.
CeilDiv(a, b) == (a + b - 1) \div b

\* The indices lo..hi that satisfy Keep, in ascending order: a for loop with push.
RECURSIVE AscendingFrom(_, _, _)
AscendingFrom(lo, hi, keep) ==
  IF lo > hi THEN <<>>
  ELSE (IF lo \in keep THEN <<lo>> ELSE <<>>) \o AscendingFrom(lo + 1, hi, keep)

NoResp == [op |-> "none", code |-> 0, status |-> "", progress |-> -1,
           nCompleted |-> -1, nFailed |-> -1, existing |-> <<>>, missing |-> <<>>, urls |-> {},
           videoId |-> 0]

\* The session document written by initiate.
NewSession(n) ==
  [userId |-> Owner, totalChunks |-> n, chunksCompleted |-> <<>>,
   chunksFailed |-> <<>>, completedChunks |-> <<>>, resumed |-> FALSE,
   status |-> "initializing", progress |-> 0, videoId |-> 0, error |-> FALSE]

\* Early returns shared by the three session handlers: 401, 400, 404, 403.
PrecheckAnyUser(user, sid, fieldsOk) ==
  IF user = "anon" THEN 401
  ELSE IF sid = "" \/ ~fieldsOk THEN 400
  ELSE IF sid # "s1" THEN 404
  ELSE 0

Precheck(user, sid, fieldsOk) ==
  IF user = "anon" THEN 401
  ELSE IF sid = "" \/ ~fieldsOk THEN 400
  ELSE IF sid # "s1" THEN 404
  ELSE IF session.userId # user THEN 403
  ELSE 0

\* --------------------------------------------------- reportChunkStatus
\* ReportCompleted without the includes test.
ReportCompletedAppends(cc, idx, st) ==
  IF st = "completed" THEN Append(cc, idx)
  ELSE IF st = "failed" THEN Without(cc, idx)
  ELSE cc

\* The completed array after a report.
ReportCompleted(cc, idx, st) ==
  IF st = "completed" THEN (IF Includes(cc, idx) THEN cc ELSE Append(cc, idx))
  ELSE IF st = "failed" THEN Without(cc, idx)
  ELSE cc

\* ReportFailed without the removal of a chunk reported completed.
ReportFailedKeeps(cf, idx, st) ==
  IF st = "failed" THEN (IF Includes(cf, idx) THEN cf ELSE Append(cf, idx))
  ELSE cf

\* The failed array after a report.
ReportFailed(cf, idx, st) ==
  IF st = "completed" THEN Without(cf, idx)
  ELSE IF st = "failed" THEN (IF Includes(cf, idx) THEN cf ELSE Append(cf, idx))
  ELSE cf

ReportProgress(cc, total) ==
  IF total > 0 THEN RoundDiv(Len(cc) * 100, total) ELSE 0

\* updates.status; "" when the handler leaves the stored status alone.
ReportStatus(progress, cc, cf) ==
  IF progress = 100 THEN "uploading_complete"
  ELSE IF Len(cf) > 0 THEN "uploading_with_errors"
  ELSE IF Len(cc) > 0 THEN "uploading"
  ELSE ""

ReportChunkStatus(user, sid, idx, st) ==
  LET pre == Precheck(user, sid, st # "") IN
  /\ IF pre # 0
       THEN /\ resp' = [NoResp EXCEPT !.op = "report", !.code = pre]
            /\ UNCHANGED session
       ELSE LET cc == ReportCompleted(session.chunksCompleted, idx, st)
                cf == ReportFailed(session.chunksFailed, idx, st)
                pr == ReportProgress(cc, session.totalChunks)
                ns == ReportStatus(pr, cc, cf)
            IN /\ session' = [session EXCEPT
                                !.chunksCompleted = cc, !.chunksFailed = cf,
                                !.progress = pr,
                                !.status = IF ns = "" THEN @ ELSE ns]
               /\ resp' = [NoResp EXCEPT !.op = "report", !.code = 200, !.progress = pr,
                                         !.nCompleted = Len(cc),
                                         !.nFailed = Len(cf), !.status = ns]
  /\ UNCHANGED <<expired, chunkStore, finalObjects, videos, composeCalls,
                 cleanupQueue, triggerPending>>
  /\ UNCHANGED <<rvars, ivars, cvars, others>>

\* ---------------------------------------------------------------- resume
\* The result of the existence loop: an index is existing when file.exists()
\* answered true; it is missing when it answered false or threw.
ResumeExisting(n, store, errs) == AscendingFrom(0, n - 1, store \ errs)

\* ResumeMissing read off the stored completed array instead of the bucket.
ResumeMissingStored(n, store, errs) ==
  AscendingFrom(0, n - 1, (0..(n - 1)) \ Range(session.chunksCompleted))

ResumeMissing(n, store, errs) ==
  AscendingFrom(0, n - 1, (0..(n - 1)) \ (store \ errs))

\* One signed write URL per missing index; a URL is identified by the chunk
\* index whose path it signs.
ResumeUrls(missing) == Range(missing)

ResumeStatus(existing, n) ==
  IF Len(existing) = n THEN "ready_to_finalize" ELSE "resuming"

\* errs: the indices whose file.exists() call throws.
Resume(user, sid, errs) ==
  LET pre == Precheck(user, sid, TRUE) IN
  /\ IF pre # 0
       THEN /\ resp' = [NoResp EXCEPT !.op = "resume", !.code = pre]
            /\ UNCHANGED session
       ELSE IF expired
       THEN /\ resp' = [NoResp EXCEPT !.op = "resume", !.code = 410]
            /\ UNCHANGED session
       ELSE LET n == session.totalChunks
                existing == ResumeExisting(n, chunkStore, errs)
                missing == ResumeMissing(n, chunkStore, errs)
            IN /\ session' = [session EXCEPT !.completedChunks = existing,
                                             !.resumed = TRUE]
               /\ resp' = [NoResp EXCEPT !.op = "resume",
                             !.code = 200, !.existing = existing,
                             !.missing = missing, !.urls = ResumeUrls(missing),
                             !.progress = RoundDiv(Len(existing) * 100, n),
                             !.status = ResumeStatus(existing, n)]
  /\ UNCHANGED <<expired, chunkStore, finalObjects, videos, composeCalls,
                 cleanupQueue, triggerPending>>
  /\ UNCHANGED <<rvars, ivars, cvars, others>>

\* -------------------------------------------------------------- finalize
\* The missing-chunk list of the verification loop.
FinalizeMissing(n, store) == AscendingFrom(0, n - 1, (0..(n - 1)) \ store)

\* The chunk paths handed to bucket.combine, in loop order.
FinalizeChunkPaths(n, store) == AscendingFrom(0, n - 1, store)

\* Whether the handler goes on to bucket.combine after the verification loop.
ComposeAllowed(missing) == Len(missing) = 0

\* The video document created on success.
VideoDoc(vid, user, sid) ==
  [videoId |-> vid, userId |-> user, uploadSessionId |-> sid,
   status |-> "uploaded", storageLocation |-> vid, analysisTriggered |-> TRUE,
   analysisError |-> FALSE]

\* Finalize starting the chunk cleanup also when compose failed.
FinalizeCleansOnFailure(user, sid, outcome, existsThrows) ==
  LET pre == Precheck(user, sid, TRUE)
      n == session.totalChunks
      missing == FinalizeMissing(n, chunkStore)
      vid == Len(videos) + 1
  IN
  /\ IF pre # 0
       THEN /\ resp' = [NoResp EXCEPT !.op = "finalize", !.code = pre]
            /\ UNCHANGED <<session, finalObjects, videos, composeCalls,
                           cleanupQueue, triggerPending>>
       ELSE IF existsThrows
       THEN /\ session' = [session EXCEPT !.status = "assembling"]
            /\ resp' = [NoResp EXCEPT !.op = "finalize", !.code = 500]
            /\ UNCHANGED <<finalObjects, videos, composeCalls, cleanupQueue,
                           triggerPending>>
       ELSE IF ~ComposeAllowed(missing)
       THEN /\ session' = [session EXCEPT !.status = "assembling"]
            /\ resp' = [NoResp EXCEPT !.op = "finalize", !.code = 400, !.missing = missing]
            /\ UNCHANGED <<finalObjects, videos, composeCalls, cleanupQueue,
                           triggerPending>>
       ELSE /\ composeCalls < MaxCompose
            /\ composeCalls' = composeCalls + 1
            /\ IF outcome \in {"throws", "absent"}
                 THEN /\ session' = [session EXCEPT !.status = "failed",
                                                    !.error = TRUE]
                      /\ resp' = [NoResp EXCEPT !.op = "finalize", !.code = 500]
                      /\ cleanupQueue' = cleanupQueue \cup
                           Range(FinalizeChunkPaths(n, chunkStore))
                      /\ UNCHANGED <<finalObjects, videos, triggerPending>>
                 ELSE /\ finalObjects' = finalObjects \cup
                           {<<vid, IF outcome = "empty" THEN "zero" ELSE "nonzero">>}
                      /\ videos' = Append(videos, VideoDoc(vid, user, sid))
                      /\ session' = [session EXCEPT !.status = "completed",
                                                    !.videoId = vid]
                      /\ cleanupQueue' = cleanupQueue \cup
                           Range(FinalizeChunkPaths(n, chunkStore))
                      /\ triggerPending' = triggerPending \cup {vid}
                      /\ resp' = [NoResp EXCEPT !.op = "finalize", !.code = 200, !.videoId = vid,
                                                !.status = "uploaded"]
  /\ UNCHANGED <<expired, chunkStore>>
  /\ UNCHANGED <<rvars, ivars, cvars, others>>

\* outcome: what bucket.combine and the check of the composed object do;
\* existsThrows: a chunkFile.exists() call of the verification loop throws.
Finalize(user, sid, outcome, existsThrows) ==
  LET pre == Precheck(user, sid, TRUE)
      n == session.totalChunks
      missing == FinalizeMissing(n, chunkStore)
      vid == Len(videos) + 1
  IN
  /\ IF pre # 0
       THEN /\ resp' = [NoResp EXCEPT !.op = "finalize", !.code = pre]
            /\ UNCHANGED <<session, finalObjects, videos, composeCalls,
                           cleanupQueue, triggerPending>>
       ELSE IF existsThrows
       THEN /\ session' = [session EXCEPT !.status = "assembling"]
            /\ resp' = [NoResp EXCEPT !.op = "finalize", !.code = 500]
            /\ UNCHANGED <<finalObjects, videos, composeCalls, cleanupQueue,
                           triggerPending>>
       ELSE IF ~ComposeAllowed(missing)
       THEN /\ session' = [session EXCEPT !.status = "assembling"]
            /\ resp' = [NoResp EXCEPT !.op = "finalize", !.code = 400, !.missing = missing]
            /\ UNCHANGED <<finalObjects, videos, composeCalls, cleanupQueue,
                           triggerPending>>
       ELSE /\ composeCalls < MaxCompose
            /\ composeCalls' = composeCalls + 1
            /\ IF outcome \in {"throws", "absent"}
                 THEN /\ session' = [session EXCEPT !.status = "failed",
                                                    !.error = TRUE]
                      /\ resp' = [NoResp EXCEPT !.op = "finalize", !.code = 500]
                      /\ UNCHANGED <<finalObjects, videos, cleanupQueue,
                                     triggerPending>>
                 ELSE /\ finalObjects' = finalObjects \cup
                           {<<vid, IF outcome = "empty" THEN "zero" ELSE "nonzero">>}
                      /\ videos' = Append(videos, VideoDoc(vid, user, sid))
                      /\ session' = [session EXCEPT !.status = "completed",
                                                    !.videoId = vid]
                      /\ cleanupQueue' = cleanupQueue \cup
                           Range(FinalizeChunkPaths(n, chunkStore))
                      /\ triggerPending' = triggerPending \cup {vid}
                      /\ resp' = [NoResp EXCEPT !.op = "finalize", !.code = 200, !.videoId = vid,
                                                !.status = "uploaded"]
  /\ UNCHANGED <<expired, chunkStore>>
  /\ UNCHANGED <<rvars, ivars, cvars, others>>

\* ------------------------------------------- client and background steps
\* The client PUTs chunk i to its signed URL.
UploadChunk(i) ==
  /\ i \in 0..(session.totalChunks - 1)
  /\ i \notin chunkStore
  /\ chunkStore' = chunkStore \cup {i}
  /\ resp' = NoResp
  /\ UNCHANGED <<session, expired, finalObjects, videos, composeCalls,
                 cleanupQueue, triggerPending>>
  /\ UNCHANGED <<rvars, ivars, cvars, others>>

\* Time passes beyond the session's expiresAt.
Expire ==
  /\ ~expired
  /\ expired' = TRUE
  /\ resp' = NoResp
  /\ UNCHANGED <<session, chunkStore, finalObjects, videos, composeCalls,
                 cleanupQueue, triggerPending>>
  /\ UNCHANGED <<rvars, ivars, cvars, others>>

\* cleanupChunks deletes one chunk object, or the delete fails and is logged.
CleanupChunk(i, ok) ==
  /\ i \in cleanupQueue
  /\ cleanupQueue' = cleanupQueue \ {i}
  /\ chunkStore' = IF ok THEN chunkStore \ {i} ELSE chunkStore
  /\ resp' = NoResp
  /\ UNCHANGED <<session, expired, finalObjects, videos, composeCalls,
                 triggerPending>>
  /\ UNCHANGED <<rvars, ivars, cvars, others>>

TriggerSettlesSilent(v, accepted) ==
  /\ v \in triggerPending
  /\ triggerPending' = triggerPending \ {v}
  /\ videos' = [videos EXCEPT ![v] =
                  IF accepted THEN [@ EXCEPT !.status = "analyzing"] ELSE @]
  /\ resp' = NoResp
  /\ UNCHANGED <<session, expired, chunkStore, finalObjects, composeCalls,
                 cleanupQueue>>
  /\ UNCHANGED <<rvars, ivars, cvars, others>>

\* The trigger fetch of finalize settles: accepted (the trigger handler has
\* marked the video analyzing) or not accepted (non-2xx or network error).
TriggerSettles(v, accepted) ==
  /\ v \in triggerPending
  /\ triggerPending' = triggerPending \ {v}
  /\ videos' = [videos EXCEPT ![v] =
                  IF accepted THEN [@ EXCEPT !.status = "analyzing"]
                  ELSE [@ EXCEPT !.status = "analysis_failed",
                                 !.analysisError = TRUE]]
  /\ resp' = NoResp
  /\ UNCHANGED <<session, expired, chunkStore, finalObjects, composeCalls,
                 cleanupQueue>>
  /\ UNCHANGED <<rvars, ivars, cvars, others>>

\* ====================================================== analysis pipeline
\* Updates of the video document are taken to succeed whenever the document
\* exists; every other awaited call of the pipeline may throw.

\* ------------------------------------------------------------------ bounds
\* Longest video, in seconds, besides the 47-second one.
MaxDuration == 12

Durations == (0..MaxDuration) \cup {47}

\* const SEGMENT_DURATION of processVideoInBackground
SEGMENT_DURATION == 30
\* the segment length written into VideoSegmenter.segmentVideo
SegmenterSeconds == 5
\* const PARALLEL_LIMIT of processVideoInBackground
PARALLEL_LIMIT == 2

VideoIds == {"v1", "vX", ""}
UserIds == {"u1", "u2", ""}

uvarsRest == <<session, expired, chunkStore, finalObjects, videos,
               composeCalls, cleanupQueue, triggerPending>>

Min(a, b) == IF a < b THEN a ELSE b

\* Math.ceil(metadata.duration / SEGMENT_DURATION)
ExpectedSegmentCount(d) == CeilDiv(d, SEGMENT_DURATION)

\* The VideoSegment array built by the loop of segmentVideo.
SegmentVideoResult(d) ==
  [i \in 1..CeilDiv(d, SegmenterSeconds) |->
     [segmentNumber |-> i,
      startTime |-> (i - 1) * SegmenterSeconds,
      endTime |-> Min(i * SegmenterSeconds, d),
      duration |-> Min(i * SegmenterSeconds, d) - (i - 1) * SegmenterSeconds]]

\* segmentChunks.length
NumBatches(n) == CeilDiv(n, PARALLEL_LIMIT)

\* segmentChunks[k].length
ChunkLengthRest(k, n) == n - k * PARALLEL_LIMIT

ChunkLength(k, n) == Min(PARALLEL_LIMIT, n - k * PARALLEL_LIMIT)

\* The segment number at position j of segmentChunks[k].
ChunkSegment(k, j) == k * PARALLEL_LIMIT + j

\* chunkProgress
BatchProgressRemaining(k, nb) == 70 + RoundDiv((nb - k) * 25, nb)

BatchProgress(k, nb) == 70 + RoundDiv(k * 25, nb)

\* failedSegments++ of the update callbacks that skip a failed result
SkippedCountNone(results) == 0

SkippedCount(results) ==
  Cardinality({j \in 1..Len(results) : results[j] = "analysis_failed"})

\* finalStatus from successRate = successfulSegments / segments.length; for
\* no segments the rate is NaN and both comparisons are false.
FinalStatusStrict(s, n) ==
  IF n = 0 THEN "analysis_failed"
  ELSE IF 10 * s > 9 * n THEN "analysis_complete"
  ELSE IF 2 * s > n THEN "analysis_partial"
  ELSE "analysis_failed"

FinalStatus(s, n) ==
  IF n = 0 THEN "analysis_failed"
  ELSE IF 10 * s >= 9 * n THEN "analysis_complete"
  ELSE IF 2 * s >= n THEN "analysis_partial"
  ELSE "analysis_failed"

FinalStep(status) ==
  IF status = "analysis_complete" THEN "Analysis complete"
  ELSE IF status = "analysis_partial" THEN "Analysis partially complete"
  ELSE "Analysis failed"

NoSummary ==
  [kind |-> "none", segmentCount |-> -1, successfulSegments |-> -1,
   failedSegments |-> -1, elapsed |-> FALSE, at |-> FALSE]

\* The video document as finalize leaves it; -1 and "" stand for an absent
\* field.
UploadedVideo ==
  [status |-> "uploaded", analysisProgress |-> -1, currentStep |-> "",
   segmentCount |-> -1, hasMetadata |-> FALSE, analysisError |-> "",
   analyzedAt |-> FALSE, summary |-> NoSummary]

\* The update of the success path after the batch loop.
FinalUpdate(d, s, f, n) ==
  [d EXCEPT !.status = FinalStatus(s, n),
            !.analysisProgress = 100,
            !.analyzedAt = TRUE,
            !.currentStep = FinalStep(FinalStatus(s, n)),
            !.summary = [kind |-> "result", segmentCount |-> n,
                         successfulSegments |-> s, failedSegments |-> f,
                         elapsed |-> TRUE, at |-> TRUE]]

\* The update of the outer catch block; e is the error's message.
FailureUpdateKeepsStatus(d, e) ==
  [d EXCEPT !.analysisError = e,
            !.analyzedAt = TRUE,
            !.currentStep = "Analysis failed",
            !.summary = [NoSummary EXCEPT !.kind = "failure",
                                          !.elapsed = TRUE, !.at = TRUE]]

FailureUpdate(d, e) ==
  [d EXCEPT !.status = "analysis_failed",
            !.analysisError = e,
            !.analyzedAt = TRUE,
            !.currentStep = "Analysis failed",
            !.summary = [NoSummary EXCEPT !.kind = "failure",
                                          !.elapsed = TRUE, !.at = TRUE]]

\* The updates that only report progress: position, next position, value of
\* analysisProgress and of currentStep ("" when the update leaves it).
ProgressWrites ==
  { [at |-> "w5",   next |-> "download",    progress |-> 5,  step |-> "Downloading video"],
    [at |-> "w10",  next |-> "validate",    progress |-> 10, step |-> "Validating video"],
    [at |-> "w15",  next |-> "standardize", progress |-> 15, step |-> "Standardizing video"],
    [at |-> "w18",  next |-> "audio",       progress |-> 18, step |-> "Extracting audio"],
    [at |-> "w25",  next |-> "segment",     progress |-> 25, step |-> "Creating video segments"],
    [at |-> "w35",  next |-> "verify",      progress |-> 35, step |-> "Verifying segment availability"],
    [at |-> "w40",  next |-> "w45",         progress |-> 40, step |-> ""],
    [at |-> "w45",  next |-> "commit",      progress |-> 45, step |-> "Storing segment metadata"],
    [at |-> "w60",  next |-> "w65",         progress |-> 60, step |-> ""],
    [at |-> "w65",  next |-> "w70",         progress |-> 65, step |-> "Initializing AI services"],
    [at |-> "w70",  next |-> "w70b",        progress |-> 70, step |-> ""],
    [at |-> "w70b", next |-> "batch",       progress |-> 70,
     step |-> "AI Analysis (Self-Hosted Parallel Processing)"] }

\* currentStep after an update: an update without the field leaves it.
StepAfterKeeps(cur, step) == cur

StepAfter(cur, step) == IF step = "" THEN cur ELSE step

\* The stages of the inner try block, in program order.
Stages == <<"download", "validate", "standardize", "audio", "segment",
            "verify", "commit", "analysis">>

StageIndex(st) == CHOOSE i \in 1..Len(Stages) : Stages[i] = st

\* ------------------------------------------------------- trigger handler
\* The status code of the trigger handler: 400 for a missing field, 500 when
\* the update of the video document throws, 200 otherwise.  Only the
\* document "v1" exists; an update of another id throws.
TriggerCodeUnawaited(videoId, userId) ==
  IF videoId = "" \/ userId = "" THEN 400 ELSE 200

TriggerCode(videoId, userId) ==
  IF videoId = "" \/ userId = "" THEN 400
  ELSE IF videoId # "v1" THEN 500
  ELSE 200

\* POST /api/analysis/trigger.  The update changes the document that
\* videoId names; the handler then starts the background run without
\* awaiting it.
Trigger(videoId, userId) ==
  /\ pc = "idle"
  /\ IF TriggerCode(videoId, userId) # 200
       THEN /\ resp' = [NoResp EXCEPT !.op = "trigger",
                                      !.code = TriggerCode(videoId, userId)]
            /\ UNCHANGED <<vdoc, pc, runUser>>
       ELSE /\ vdoc' = IF videoId = "v1"
                         THEN [vdoc EXCEPT !.status = "analyzing",
                                           !.analysisProgress = 0,
                                           !.currentStep = "Initializing analysis..."]
                         ELSE vdoc
            /\ pc' = "w5"
            /\ runUser' = userId
            /\ resp' = [NoResp EXCEPT !.op = "trigger", !.code = 200,
                                      !.status = "analyzing"]
  /\ UNCHANGED <<duration, err, localFiles, segments, segDocs, chunkIndex,
                 inflight, completedSegments, successfulSegments,
                 failedSegments, started, inferCalls, vseg, vtries>>
  /\ UNCHANGED <<uvarsRest, ivars, cvars, others>>

\* ------------------------------------------- processVideoInBackground
\* What every step of the run leaves alone unless it says otherwise.
BaseFrame == /\ resp' = NoResp
             /\ UNCHANGED <<uvarsRest, ivars, cvars, others>>
             /\ UNCHANGED <<duration, runUser>>

RunFrame == /\ BaseFrame
            /\ UNCHANGED <<vseg, vtries>>

\* An awaited call of the named stage throws: control leaves the inner try
\* block through its finally clause.
Throw(stage) ==
  /\ pc' = "finally"
  /\ err' = stage

WriteProgress ==
  /\ \E w \in ProgressWrites :
       /\ pc = w.at
       /\ pc' = w.next
       /\ vdoc' = [vdoc EXCEPT !.analysisProgress = w.progress,
                               !.currentStep = StepAfter(vdoc.currentStep, w.step)]
  /\ RunFrame
  /\ UNCHANGED <<err, localFiles, segments, segDocs, chunkIndex, inflight,
                 completedSegments, successfulSegments, failedSegments,
                 started, inferCalls>>

\* videoProcessor.downloadVideo reads videos/<userId>/<videoId>.mp4, which
\* exists only under the owner's id.
DownloadVideo(ok) ==
  /\ pc = "download"
  /\ started' = started \cup {"download"}
  /\ IF ok /\ runUser = Owner
       THEN /\ localFiles' = localFiles \cup {"original"}
            /\ pc' = "w10"
            /\ UNCHANGED err
       ELSE /\ Throw("download")
            /\ UNCHANGED localFiles
  /\ RunFrame
  /\ UNCHANGED <<vdoc, segments, segDocs, chunkIndex, inflight,
                 completedSegments, successfulSegments, failedSegments,
                 inferCalls>>

ValidateVideo(ok) ==
  /\ pc = "validate"
  /\ started' = started \cup {"validate"}
  /\ IF ok THEN pc' = "wmeta" /\ UNCHANGED err
           ELSE Throw("validate")
  /\ RunFrame
  /\ UNCHANGED <<vdoc, localFiles, segments, segDocs, chunkIndex, inflight,
                 completedSegments, successfulSegments, failedSegments,
                 inferCalls>>

\* The update that stores the metadata of the original file.
StoreMetadata ==
  /\ pc = "wmeta"
  /\ vdoc' = [vdoc EXCEPT !.hasMetadata = TRUE]
  /\ pc' = "w15"
  /\ RunFrame
  /\ UNCHANGED <<err, localFiles, segments, segDocs, chunkIndex, inflight,
                 completedSegments, successfulSegments, failedSegments,
                 started, inferCalls>>

\* The files whose path the run holds in downloadedVideoPath,
\* standardizedVideoPath and audioPath once the stage that makes them has
\* returned.
TrackedFiles == {"original", "standardized", "audio"}

StandardizeOutcomes == {"hw", "cpu", "none", "partial"}

\* outcome: "hw" hardware encoding works, "cpu" it fails and the CPU
\* fallback works, "none" both fail before ffmpeg has opened its output,
\* "partial" both fail with the output file begun.  The path is returned,
\* and assigned by the caller, only when an encoding has ended.
StandardizeVideo(outcome) ==
  /\ pc = "standardize"
  /\ started' = started \cup {"standardize"}
  /\ IF outcome \in {"hw", "cpu"}
       THEN /\ localFiles' = localFiles \cup {"standardized"}
            /\ pc' = "w18"
            /\ UNCHANGED err
       ELSE /\ Throw("standardize")
            /\ localFiles' = IF outcome = "partial"
                               THEN localFiles \cup {"standardized.part"}
                               ELSE localFiles
  /\ RunFrame
  /\ UNCHANGED <<vdoc, segments, segDocs, chunkIndex, inflight,
                 completedSegments, successfulSegments, failedSegments,
                 inferCalls>>

ExtractOutcomes == {"ok", "none", "partial"}

\* outcome: as for StandardizeVideo, with one ffmpeg run.
ExtractAudioTrack(outcome) ==
  /\ pc = "audio"
  /\ started' = started \cup {"audio"}
  /\ IF outcome = "ok"
       THEN /\ localFiles' = localFiles \cup {"audio"}
            /\ pc' = "w20"
            /\ UNCHANGED err
       ELSE /\ Throw("audio")
            /\ localFiles' = IF outcome = "partial"
                               THEN localFiles \cup {"audio.part"}
                               ELSE localFiles
  /\ RunFrame
  /\ UNCHANGED <<vdoc, segments, segDocs, chunkIndex, inflight,
                 completedSegments, successfulSegments, failedSegments,
                 inferCalls>>

\* The update that publishes the expected segment count.
PlanSegmentation ==
  /\ pc = "w20"
  /\ vdoc' = [vdoc EXCEPT !.analysisProgress = 20,
                          !.segmentCount = ExpectedSegmentCount(duration),
                          !.currentStep = "Planning segmentation (Speed Optimized)"]
  /\ pc' = "w25"
  /\ RunFrame
  /\ UNCHANGED <<err, localFiles, segments, segDocs, chunkIndex, inflight,
                 completedSegments, successfulSegments, failedSegments,
                 started, inferCalls>>

SegmentVideo(ok) ==
  /\ pc = "segment"
  /\ started' = started \cup {"segment"}
  /\ IF ok
       THEN /\ segments' = SegmentVideoResult(duration)
            /\ pc' = "w35"
            /\ UNCHANGED err
       ELSE /\ Throw("segment")
            /\ UNCHANGED segments
  /\ RunFrame
  /\ UNCHANGED <<vdoc, localFiles, segDocs, chunkIndex, inflight,
                 completedSegments, successfulSegments, failedSegments,
                 inferCalls>>

\* const maxAttempts of verifyAllSegmentsReady
VerifyMaxAttempts == 10
\* the size a segment object has to exceed
MinSegmentBytes == 1000

\* One attempt finds the object and its size exceeds the minimum.
SegmentReady(exists, size) == exists /\ size > MinSegmentBytes

\* Promise.all(verificationPromises) resolves: no segment is left to check.
VerifyDoneAfterFirst(next, n) == next > 1

VerifyDone(next, n) == next > n

\* verifyAllSegmentsReady starts: it throws when no bucket is configured,
\* otherwise it starts the check of every segment.  The checks do not
\* depend on each other and are followed here in segment order.
VerifyAllSegmentsReady(configured) ==
  /\ pc = "verify"
  /\ started' = started \cup {"verify"}
  /\ IF configured
       THEN /\ vseg' = 1
            /\ vtries' = 0
            /\ pc' = IF VerifyDone(1, Len(segments)) THEN "w40" ELSE "verifying"
            /\ UNCHANGED err
       ELSE /\ Throw("verify")
            /\ UNCHANGED <<vseg, vtries>>
  /\ BaseFrame
  /\ UNCHANGED <<vdoc, localFiles, segments, segDocs, chunkIndex, inflight,
                 completedSegments, successfulSegments, failedSegments,
                 inferCalls>>

\* One pass of the while loop for the segment being checked: exists() and
\* getMetadata() answer (a call that throws counts as exists = FALSE).
VerifyAttempt(exists, size) ==
  /\ pc = "verifying"
  /\ IF SegmentReady(exists, size)
       THEN /\ vseg' = vseg + 1
            /\ vtries' = 0
            /\ pc' = IF VerifyDone(vseg + 1, Len(segments)) THEN "w40"
                                                           ELSE "verifying"
            /\ UNCHANGED err
       ELSE /\ vtries' = vtries + 1
            /\ UNCHANGED vseg
            /\ IF vtries + 1 < VerifyMaxAttempts
                 THEN UNCHANGED <<pc, err>>
                 ELSE Throw("verify")
  /\ BaseFrame
  /\ UNCHANGED <<vdoc, localFiles, segments, segDocs, chunkIndex, inflight,
                 completedSegments, successfulSegments, failedSegments,
                 started, inferCalls>>

\* batch.commit() of one placeholder document per segment.
CommitPlaceholders(ok) ==
  /\ pc = "commit"
  /\ started' = started \cup {"commit"}
  /\ IF ok
       THEN /\ segDocs' = [i \in 1..Len(segments) |-> "placeholder"]
            /\ pc' = "w60"
            /\ UNCHANGED err
       ELSE /\ Throw("commit")
            /\ UNCHANGED segDocs
  /\ RunFrame
  /\ UNCHANGED <<vdoc, localFiles, segments, chunkIndex, inflight,
                 completedSegments, successfulSegments, failedSegments,
                 inferCalls>>

\* Top of a loop iteration: the progress update, then chunk.map starts the
\* analysis callback of every segment of the batch.
BatchBegin ==
  /\ pc = "batch"
  /\ chunkIndex < NumBatches(Len(segments))
  /\ vdoc' = [vdoc EXCEPT !.analysisProgress =
                BatchProgress(chunkIndex, NumBatches(Len(segments)))]
  /\ inflight' = [j \in 1..ChunkLength(chunkIndex, Len(segments)) |-> "analyzing"]
  /\ inferCalls' = inferCalls + ChunkLength(chunkIndex, Len(segments))
  /\ started' = started \cup {"analysis"}
  /\ pc' = "analysis"
  /\ RunFrame
  /\ UNCHANGED <<err, localFiles, segments, segDocs, chunkIndex,
                 completedSegments, successfulSegments, failedSegments>>

\* The analysis callback of the segment at position j settles: both
\* inference calls returned (ok) or one of them threw and the callback's
\* catch turned it into a failure result.
AnalysisSettles(j, ok) ==
  /\ pc = "analysis"
  /\ j \in 1..Len(inflight)
  /\ inflight[j] = "analyzing"
  /\ inflight' = [inflight EXCEPT ![j] = IF ok THEN "analysed"
                                              ELSE "analysis_failed"]
  /\ RunFrame
  /\ UNCHANGED <<vdoc, pc, err, localFiles, segments, segDocs, chunkIndex,
                 completedSegments, successfulSegments, failedSegments,
                 started, inferCalls>>

\* Promise.all of the analysis callbacks has resolved; chunkResults.map
\* starts the update callbacks: a failure result is counted and skipped, a
\* success result issues its segmentRef.set.
StartUpdates ==
  /\ pc = "analysis"
  /\ \A j \in 1..Len(inflight) : inflight[j] # "analyzing"
  /\ failedSegments' = failedSegments + SkippedCount(inflight)
  /\ inflight' = [j \in 1..Len(inflight) |->
                    IF inflight[j] = "analysed" THEN "writing" ELSE "skipped"]
  /\ pc' = "updates"
  /\ RunFrame
  /\ UNCHANGED <<vdoc, err, localFiles, segments, segDocs, chunkIndex,
                 completedSegments, successfulSegments, started, inferCalls>>

\* WriteSettles without the count of a failed write.
WriteSettlesUncounted(j, ok) ==
  /\ pc = "updates"
  /\ j \in 1..Len(inflight)
  /\ inflight[j] = "writing"
  /\ IF ok
       THEN /\ segDocs' = [segDocs EXCEPT ![ChunkSegment(chunkIndex, j)] = "analyzed"]
            /\ successfulSegments' = successfulSegments + 1
            /\ inflight' = [inflight EXCEPT ![j] = "stored"]
            /\ UNCHANGED failedSegments
       ELSE /\ inflight' = [inflight EXCEPT ![j] = "write_failed"]
            /\ UNCHANGED <<segDocs, successfulSegments, failedSegments>>
  /\ RunFrame
  /\ UNCHANGED <<vdoc, pc, err, localFiles, segments, chunkIndex,
                 completedSegments, started, inferCalls>>

\* segmentRef.set of the segment at position j settles.
WriteSettles(j, ok) ==
  /\ pc = "updates"
  /\ j \in 1..Len(inflight)
  /\ inflight[j] = "writing"
  /\ IF ok
       THEN /\ segDocs' = [segDocs EXCEPT ![ChunkSegment(chunkIndex, j)] = "analyzed"]
            /\ successfulSegments' = successfulSegments + 1
            /\ inflight' = [inflight EXCEPT ![j] = "stored"]
            /\ UNCHANGED failedSegments
       ELSE /\ failedSegments' = failedSegments + 1
            /\ inflight' = [inflight EXCEPT ![j] = "write_failed"]
            /\ UNCHANGED <<segDocs, successfulSegments>>
  /\ RunFrame
  /\ UNCHANGED <<vdoc, pc, err, localFiles, segments, chunkIndex,
                 completedSegments, started, inferCalls>>

\* Promise.all(updatePromises) has resolved: end of the loop iteration.
BatchEnd ==
  /\ pc = "updates"
  /\ \A j \in 1..Len(inflight) : inflight[j] # "writing"
  /\ completedSegments' = completedSegments + Len(inflight)
  /\ chunkIndex' = chunkIndex + 1
  /\ inflight' = <<>>
  /\ pc' = "batch"
  /\ RunFrame
  /\ UNCHANGED <<vdoc, err, localFiles, segments, segDocs,
                 successfulSegments, failedSegments, started, inferCalls>>

\* After the loop: the final status and the terminal update.
FinishAnalysis ==
  /\ pc = "batch"
  /\ chunkIndex >= NumBatches(Len(segments))
  /\ vdoc' = FinalUpdate(vdoc, successfulSegments, failedSegments, Len(segments))
  /\ pc' = "finally"
  /\ RunFrame
  /\ UNCHANGED <<err, localFiles, segments, segDocs, chunkIndex, inflight,
                 completedSegments, successfulSegments, failedSegments,
                 started, inferCalls>>

\* The finally clause: videoProcessor.cleanup unlinks the files whose path
\* the run holds, or logs the error of a failed unlink and returns.
CleanupFiles(ok) ==
  /\ pc = "finally"
  /\ localFiles' = IF ok THEN localFiles \ TrackedFiles ELSE localFiles
  /\ pc' = IF err = "" THEN "done" ELSE "catch"
  /\ RunFrame
  /\ UNCHANGED <<vdoc, err, segments, segDocs, chunkIndex, inflight,
                 completedSegments, successfulSegments, failedSegments,
                 started, inferCalls>>

\* The outer catch block.
RecordFailure ==
  /\ pc = "catch"
  /\ vdoc' = FailureUpdate(vdoc, err)
  /\ pc' = "failed"
  /\ RunFrame
  /\ UNCHANGED <<err, localFiles, segments, segDocs, chunkIndex, inflight,
                 completedSegments, successfulSegments, failedSegments,
                 started, inferCalls>>

\* The state of the analysis of a video of d seconds before any trigger.
NotAnalysed(d) ==
  /\ duration = d
  /\ vdoc = UploadedVideo
  /\ pc = "idle"
  /\ runUser = ""
  /\ err = ""
  /\ localFiles = {}
  /\ segments = <<>>
  /\ segDocs = <<>>
  /\ chunkIndex = 0
  /\ inflight = <<>>
  /\ completedSegments = 0
  /\ successfulSegments = 0
  /\ failedSegments = 0
  /\ started = {}
  /\ inferCalls = 0
  /\ vseg = 0
  /\ vtries = 0

\* ================================================================ initiate
\* Sizes are whole bytes, written as kib * 1024 + rem with 0 <= rem < 1024
\* so that 5 GiB and its neighbours stay within the checker's integers.
Bytes(k, r) == [kib |-> k, rem |-> r]

\* a < b
SizeLt(a, b) == a.kib < b.kib \/ (a.kib = b.kib /\ a.rem < b.rem)

MAX_FILE_SIZE == Bytes(5 * 1024 * 1024, 0)
MIN_FILE_SIZE == Bytes(1, 0)
OneGiB == Bytes(1024 * 1024, 0)
SUPPORTED_VIDEO_TYPES ==
  {"video/mp4", "video/quicktime", "video/x-msvideo", "video/webm",
   "video/x-ms-wmv"}

\* calculateChunkSize
CalculateChunkSizeAlwaysSmall(fileSize) == Bytes(5 * 1024, 0)

CalculateChunkSize(fileSize) ==
  IF SizeLt(fileSize, OneGiB) THEN Bytes(5 * 1024, 0)
  ELSE Bytes(10 * 1024, 0)

\* Math.ceil(fileSize / chunkSize) for a chunk size of whole KiB
TotalChunks(fileSize, chunkSize) ==
  (fileSize.kib \div chunkSize.kib)
  + (IF fileSize.kib % chunkSize.kib # 0 \/ fileSize.rem # 0 THEN 1 ELSE 0)

\* generateChunkPath: uploads/<userId>/<sessionId>/chunk_<index>; the index
\* is padded to three digits, which keeps distinct indices distinct.
GenerateChunkPath(userId, sessionId, idx) ==
  <<"uploads", userId, sessionId, idx>>

\* generateSignedUrls: one write URL per chunk index, in index order.
GenerateSignedUrls(userId, sessionId, totalChunks) ==
  [i \in 1..totalChunks |-> GenerateChunkPath(userId, sessionId, i - 1)]

\* Requests tried: a missing value is "" (or size 0, which !fileSize also
\* treats as missing).
InitiateUsers == {"u1", "anon"}
FileNames == {"clip.mp4", ""}
FileTypes == {"video/mp4", "image/png", ""}
FileSizes ==
  {Bytes(0, 0), Bytes(0, 1023), Bytes(1, 0), Bytes(5 * 1024, 0),
   Bytes(5 * 1024, 1), Bytes(1024 * 1024 - 1, 1023), Bytes(1024 * 1024, 0),
   Bytes(1024 * 1024 + 10 * 1024, 1), Bytes(5 * 1024 * 1024, 0),
   Bytes(5 * 1024 * 1024, 1)}

NoInitiateResp ==
  [code |-> 0, uploadSessionId |-> 0, chunkUrls |-> <<>>, totalChunks |-> 0,
   chunkSize |-> Bytes(0, 0)]

\* The early returns of the handler; 0 when the request passes them.
InitiateRejectNoMax(user, fileName, fileSize, fileType) ==
  IF user = "anon" THEN 401
  ELSE IF fileName = "" \/ fileSize = Bytes(0, 0) \/ fileType = "" THEN 400
  ELSE IF fileType \notin SUPPORTED_VIDEO_TYPES THEN 400
  ELSE IF SizeLt(fileSize, MIN_FILE_SIZE) THEN 400
  ELSE 0

InitiateReject(user, fileName, fileSize, fileType) ==
  IF user = "anon" THEN 401
  ELSE IF fileName = "" \/ fileSize = Bytes(0, 0) \/ fileType = "" THEN 400
  ELSE IF fileType \notin SUPPORTED_VIDEO_TYPES THEN 400
  ELSE IF SizeLt(fileSize, MIN_FILE_SIZE) \/ SizeLt(MAX_FILE_SIZE, fileSize) THEN 400
  ELSE 0

\* What the storage and database calls of an accepted request do: all
\* succeed, the first getSignedUrl throws, or the write of the session
\* document throws.
InitiateOutcomes == {"ok", "signThrows", "setThrows"}

\* POST /api/upload/initiate.  A throw is answered 500 by the handler's
\* catch.
Initiate(user, fileName, fileSize, fileType, outcome) ==
  LET rej == InitiateReject(user, fileName, fileSize, fileType)
      chunkSize == CalculateChunkSize(fileSize)
      totalChunks == TotalChunks(fileSize, chunkSize)
      sid == Len(newSessions) + 1
  IN
  /\ IF rej # 0
       THEN /\ iresp' = [NoInitiateResp EXCEPT !.code = rej]
            /\ signed' = 0
            /\ UNCHANGED newSessions
       ELSE /\ Len(newSessions) < MaxSessions
            /\ IF outcome = "signThrows"
                 THEN /\ iresp' = [NoInitiateResp EXCEPT !.code = 500]
                      /\ signed' = 0
                      /\ UNCHANGED newSessions
                 ELSE /\ signed' = totalChunks
                      /\ IF outcome = "setThrows"
                           THEN /\ iresp' = [NoInitiateResp EXCEPT !.code = 500]
                                /\ UNCHANGED newSessions
                           ELSE /\ newSessions' = Append(newSessions,
                                     [userId |-> user, fileName |-> fileName,
                                      fileSize |-> fileSize, fileType |-> fileType,
                                      totalChunks |-> totalChunks,
                                      chunkSize |-> chunkSize,
                                      chunksCompleted |-> <<>>,
                                      chunksFailed |-> <<>>,
                                      status |-> "initializing", progress |-> 0])
                                /\ iresp' = [code |-> 200, uploadSessionId |-> sid,
                                             chunkUrls |-> GenerateSignedUrls(user, sid, totalChunks),
                                             totalChunks |-> totalChunks,
                                             chunkSize |-> chunkSize]
  /\ UNCHANGED <<uvars, rvars, cvars, others>>

\* No initiate request has been handled.
NoInitiate ==
  /\ newSessions = <<>>
  /\ signed = 0
  /\ iresp = NoInitiateResp

\* ------------------------------------------------------- retry handler
RetryActions == {"retry", "cancel", ""}

\* The early returns of the POST handler of analysis/status.
RetryCode(user, videoId, action) ==
  IF user = "anon" THEN 401
  ELSE IF videoId = "" \/ action = "" THEN 400
  ELSE IF videoId # "v1" THEN 404
  ELSE IF user # Owner THEN 403
  ELSE IF action = "retry" THEN 200
  ELSE 400

\* POST analysis/status: the retry action resets the analysis fields of the
\* video document and answers; it starts no run and queues no task.
RetryAnalysis(user, videoId, action) ==
  /\ IF RetryCode(user, videoId, action) = 200
       THEN /\ vdoc' = [vdoc EXCEPT !.status = "queued",
                                    !.analysisProgress = 0,
                                    !.analysisError = "",
                                    !.analyzedAt = FALSE]
            /\ resp' = [NoResp EXCEPT !.op = "retry", !.code = 200,
                                      !.status = "queued"]
       ELSE /\ resp' = [NoResp EXCEPT !.op = "retry",
                                      !.code = RetryCode(user, videoId, action)]
            /\ UNCHANGED vdoc
  /\ UNCHANGED <<duration, pc, runUser, err, localFiles, segments, segDocs,
                 chunkIndex, inflight, completedSegments, successfulSegments,
                 failedSegments, started, inferCalls, vseg, vtries>>
  /\ UNCHANGED <<uvarsRest, ivars, cvars, others>>

\* ------------------------------------------- the two inference calls
\* What one request to the inference service can end in: an HTTP status,
\* or an error thrown before a response exists (the 90 s abort of the
\* visual call, a failed fetch, an unreadable local file).
HttpAnswers == {"200", "400", "429", "500", "503"}

ThrownErrors == {"aborted", "fetch failed", "ENOENT"}

Answers == HttpAnswers \cup ThrownErrors

maxRetries == 3

baseDelay == 2000

RECURSIVE Pow2(_)
Pow2(n) == IF n = 0 THEN 1 ELSE 2 * Pow2(n - 1)

IsRetryableError(status) == status \in {"500", "502", "503", "504", "429"}

\* The message of a thrown error is searched for the words timeout, network,
\* econnreset, enotfound, aborted and fetch.
IsRetryableNetworkError(error) == error \in {"aborted", "fetch failed"}

InferenceKinds == {"audio", "visual"}

StartCall(kind) ==
  /\ cstate = "idle"
  /\ ckind' = kind
  /\ cstate' = "calling"
  /\ ctrace' = <<>>
  /\ UNCHANGED <<uvars, rvars, ivars, others>>

\* One pass of the attempt loop of callVisualAnalysisService.  An answer
\* that is not retryable is thrown into the loop's own catch, which throws
\* on the last attempt only: before it the loop goes on at once.
CallVisualAnalysisService(answer) ==
  /\ ckind = "visual"
  /\ cstate = "calling"
  /\ LET attempt == Len(ctrace) + 1
         delay == baseDelay * Pow2(attempt - 1)
         retryable == IF answer \in HttpAnswers
                        THEN IsRetryableError(answer)
                        ELSE IsRetryableNetworkError(answer)
     IN IF answer = "200"
          THEN /\ cstate' = "ok"
               /\ ctrace' = Append(ctrace, [answer |-> answer, delay |-> 0])
          ELSE IF retryable /\ attempt < maxRetries
                 THEN /\ cstate' = "calling"
                      /\ ctrace' = Append(ctrace, [answer |-> answer, delay |-> delay])
                 ELSE /\ cstate' = IF attempt = maxRetries THEN "failed" ELSE "calling"
                      /\ ctrace' = Append(ctrace, [answer |-> answer, delay |-> 0])
  /\ UNCHANGED ckind
  /\ UNCHANGED <<uvars, rvars, ivars, others>>

\* callTranscriptionService: one fetch without a timer; whatever is not a
\* 2xx answer is thrown to the caller.
CallTranscriptionService(answer) ==
  /\ ckind = "audio"
  /\ cstate = "calling"
  /\ cstate' = IF answer = "200" THEN "ok" ELSE "failed"
  /\ ctrace' = Append(ctrace, [answer |-> answer, delay |-> 0])
  /\ UNCHANGED ckind
  /\ UNCHANGED <<uvars, rvars, ivars, others>>

NoCall ==
  /\ ckind = "none"
  /\ cstate = "idle"
  /\ ctrace = <<>>

\* ------------------------------------------------ one segment document
MaxClock == 3

AudioResults == {"a1", "a2"}

VisualResults == {"v1", "v2"}

\* The fields whose value is new Date().
TimePaths == {"processingMetadata.createdAt", "processingMetadata.analyzedAt"}

\* A document is a function from the paths of its leaf fields to values;
\* a time is a whole number, -1 for null.
AbsentDoc == <<>>

\* The placeholder that the batch of stage 7 sets for a segment.
PlaceholderData(t) ==
  "segmentNumber" :> "1" @@ "startTime" :> "0" @@ "endTime" :> "30" @@
  "duration" :> "30" @@ "videoPath" :> "segment_001.mp4" @@
  "thumbnailPath" :> "segment_001.jpg" @@
  "people" :> "" @@ "objects" :> "" @@ "activities" :> "" @@
  "audio.transcript" :> "" @@ "audio.speakerCount" :> "" @@
  "audio.audioEvents" :> "" @@ "audio.volume" :> "unknown" @@
  "audio.clarity" :> "unknown" @@
  "sceneContext.location" :> "unknown" @@ "sceneContext.timeOfDay" :> "unknown" @@
  "sceneContext.lighting" :> "unknown" @@ "sceneContext.cameraAngle" :> "unknown" @@
  "sceneContext.mood" :> "unknown" @@
  "searchableText" :> <<>> @@
  "processingMetadata.createdAt" :> t @@ "processingMetadata.analyzedAt" :> -1 @@
  "processingMetadata.videoIntelligenceTime" :> "0" @@
  "processingMetadata.speechToTextTime" :> "0" @@
  "processingMetadata.totalProcessingTime" :> "0" @@
  "processingMetadata.apiCosts.videoIntelligence" :> "0" @@
  "processingMetadata.apiCosts.speechToText" :> "0" @@
  "processingMetadata.apiCosts.total" :> "0"

\* The data of the result write of stage 9 for the results audio, visual.
ResultData(audio, visual, t) ==
  "segmentNumber" :> "1" @@ "startTime" :> "0" @@ "endTime" :> "30" @@
  "duration" :> "30" @@ "videoPath" :> "segment_001.mp4" @@
  "audio.transcript" :> audio @@ "audio.speakerCount" :> audio @@
  "audio.audioEvents" :> audio @@ "audio.volume" :> audio @@
  "audio.clarity" :> audio @@ "audio.speakers" :> audio @@
  "people" :> visual @@ "objects" :> visual @@ "activities" :> visual @@
  "sceneContext.location" :> visual @@ "sceneContext.timeOfDay" :> visual @@
  "sceneContext.lighting" :> visual @@ "sceneContext.cameraAngle" :> visual @@
  "sceneContext.mood" :> visual @@
  "visualFeatures" :> visual @@
  "searchableText" :> <<audio, visual>> @@
  "processingMetadata.createdAt" :> t @@ "processingMetadata.analyzedAt" :> t @@
  "processingMetadata.selfHostedProcessingTime" :> "0" @@
  "processingMetadata.totalProcessingTime" :> "0" @@
  "processingMetadata.apiCosts.selfHostedService" :> "0" @@
  "processingMetadata.apiCosts.total" :> "0" @@
  "processingMetadata.migrationNote" :> "self-hosted"

SetMergeReplaces(doc, data) == data

\* DocumentReference.set(data, {merge: true}): the leaves of data are
\* written, every other leaf of the document is kept.
SetMerge(doc, data) ==
  [p \in DOMAIN doc \cup DOMAIN data |->
     IF p \in DOMAIN data THEN data[p] ELSE doc[p]]

\* The document holds the results audio, visual in every field that the
\* result write sets, the two times aside.
HoldsResults(doc, audio, visual) ==
  \A p \in DOMAIN ResultData(audio, visual, 0) \ TimePaths :
    p \in DOMAIN doc /\ doc[p] = ResultData(audio, visual, 0)[p]

SegFrame == UNCHANGED <<uvars, rvars, ivars, cvars, kvars, pvars, tvars, avars, lvars>>

\* batch.set without merge, then batch.commit.
CommitPlaceholder ==
  /\ segDoc' = PlaceholderData(wclock)
  /\ wlast' = <<>>
  /\ UNCHANGED wclock
  /\ SegFrame

\* segmentRef.set(..., {merge: true}) of a segment whose two calls returned.
WriteResult(audio, visual) ==
  /\ segDoc' = SetMerge(segDoc, ResultData(audio, visual, wclock))
  /\ wlast' = <<audio, visual, HoldsResults(segDoc, audio, visual)>>
  /\ UNCHANGED wclock
  /\ SegFrame

ClockTick ==
  /\ wclock < MaxClock
  /\ wclock' = wclock + 1
  /\ UNCHANGED <<segDoc, wlast>>
  /\ SegFrame

NoSegmentDoc ==
  /\ segDoc = AbsentDoc
  /\ wclock = 0
  /\ wlast = <<>>

\* ------------------------------------------------- the client uploader
MaxClientChunks == 4

ClientFrame == UNCHANGED <<uvars, rvars, ivars, cvars, svars, pvars, tvars, avars, lvars>>

\* concurrentLimit
ConcurrentLimit(totalChunks) == Min(3, totalChunks)

\* The chunk uploads whose PUT request has been sent and has not ended.
InFlight == {i \in DOMAIN upChunk : upChunk[i] = "uploading"}

\* A chunk's promise has settled.
Fulfilled(i) == upChunk[i] = "completed"

Rejected(i) == upChunk[i] = "rejected"

\* The loop that fills uploadPromises: uploadChunkWithProgress(i) is called
\* for every i, and each call runs up to its first await, that is through
\* xhr.send of uploadChunk.
StartUploads ==
  /\ upPc = "start"
  /\ upChunk' = [i \in 0..(upTotal - 1) |-> "uploading"]
  /\ upPc' = "batches"
  /\ upBatch' = 0
  /\ UNCHANGED upTotal
  /\ ClientFrame

\* The PUT of chunk i ends: then the completed report is sent, or the catch
\* block sends the failed report.
ChunkUploadSettles(i, ok) ==
  /\ i \in DOMAIN upChunk
  /\ upChunk[i] = "uploading"
  /\ upChunk' = [upChunk EXCEPT ![i] = IF ok THEN "reporting" ELSE "reportingFailure"]
  /\ UNCHANGED <<upTotal, upPc, upBatch>>
  /\ ClientFrame

\* A report of chunk i ends.  A completed report that fails is thrown into
\* the catch block; after the failed report the error is rethrown.
ChunkReportSettles(i, ok) ==
  /\ i \in DOMAIN upChunk
  /\ upChunk[i] \in {"reporting", "reportingFailure"}
  /\ upChunk' = [upChunk EXCEPT ![i] =
                   IF upChunk[i] = "reporting"
                     THEN (IF ok THEN "completed" ELSE "reportingFailure")
                     ELSE "rejected"]
  /\ UNCHANGED <<upTotal, upPc, upBatch>>
  /\ ClientFrame

\* executeWithConcurrency: Promise.all of the batch at upBatch is over, by
\* all of its promises being fulfilled or by one being rejected.
AwaitBatch ==
  /\ upPc = "batches"
  /\ LET limit == ConcurrentLimit(upTotal)
         batch == {i \in DOMAIN upChunk : upBatch <= i /\ i < upBatch + limit}
     IN /\ \/ \A i \in batch : Fulfilled(i)
           \/ \E i \in batch : Rejected(i)
        /\ upBatch' = upBatch + limit
        /\ upPc' = IF upBatch + limit < upTotal THEN "batches" ELSE "verify"
  /\ UNCHANGED <<upTotal, upChunk>>
  /\ ClientFrame

\* The count of chunkResults after the batches.
VerifyCompleted ==
  /\ upPc = "verify"
  /\ upPc' = IF \A i \in DOMAIN upChunk : Fulfilled(i) THEN "finalize" ELSE "failed"
  /\ UNCHANGED <<upTotal, upChunk, upBatch>>
  /\ ClientFrame

NoClient ==
  /\ upTotal = 0
  /\ upChunk = <<>>
  /\ upPc = "none"
  /\ upBatch = 0

\* ------------------------------- report requests handled side by side
\* The report requests of two chunks of one upload: uploadChunkWithProgress
\* runs for every chunk at once, and each sends its report when its own PUT
\* has ended.
Reporters == {1, 2}

\* The fields of the update object built from the session data read.
ReportUpdates(data, idx, st) ==
  LET cc == ReportCompleted(data.chunksCompleted, idx, st)
      cf == ReportFailed(data.chunksFailed, idx, st)
      pr == ReportProgress(cc, data.totalChunks)
  IN [chunksCompleted |-> cc, chunksFailed |-> cf, progress |-> pr,
      status |-> ReportStatus(pr, cc, cf)]

\* The owner's request r up to the end of `await sessionRef.get()`.
ReportRead(r, idx, st) ==
  /\ repPc[r] = "idle"
  /\ Precheck(Owner, "s1", st # "") = 0
  /\ repPc' = [repPc EXCEPT ![r] = "read"]
  /\ repArg' = [repArg EXCEPT ![r] = <<idx, st>>]
  /\ repSnap' = [repSnap EXCEPT ![r] = session]
  /\ resp' = NoResp
  /\ UNCHANGED <<session, expired, chunkStore, finalObjects, videos, composeCalls,
                 cleanupQueue, triggerPending>>
  /\ UNCHANGED <<rvars, ivars, cvars, svars, kvars, tvars, avars, lvars>>

\* Request r from there: `await sessionRef.update(updates)` and the response.
ReportWrite(r) ==
  /\ repPc[r] = "read"
  /\ LET u == ReportUpdates(repSnap[r], repArg[r][1], repArg[r][2]) IN
       /\ session' = [session EXCEPT
                        !.chunksCompleted = u.chunksCompleted,
                        !.chunksFailed = u.chunksFailed,
                        !.progress = u.progress,
                        !.status = IF u.status = "" THEN @ ELSE u.status]
       /\ resp' = [NoResp EXCEPT !.op = "report", !.code = 200,
                                 !.progress = u.progress,
                                 !.nCompleted = Len(u.chunksCompleted),
                                 !.nFailed = Len(u.chunksFailed),
                                 !.status = u.status]
  /\ repPc' = [repPc EXCEPT ![r] = "returned"]
  /\ UNCHANGED <<repArg, repSnap>>
  /\ UNCHANGED <<expired, chunkStore, finalObjects, videos, composeCalls,
                 cleanupQueue, triggerPending>>
  /\ UNCHANGED <<rvars, ivars, cvars, svars, kvars, tvars, avars, lvars>>

NoReports ==
  /\ repPc = [r \in Reporters |-> "idle"]
  /\ repArg = [r \in Reporters |-> <<0, "">>]
  /\ repSnap = [r \in Reporters |-> NewSession(0)]

\* ---------------------------------- trigger requests for one video
\* Largest number of trigger requests for the video.
MaxRuns == 2

\* The positions of the progress updates of a run, in program order.
WriteOrder == <<"w5", "w10", "w15", "w18", "w25", "w35", "w40", "w45",
                "w60", "w65", "w70", "w70b">>

RunEnded == Len(WriteOrder) + 2

\* The invocations of processVideoInBackground that have not returned.
Executing == {r \in DOMAIN runAt : runAt[r] \in 1..(RunEnded - 1)}

TriggersFrame ==
  /\ UNCHANGED <<duration, pc, runUser, err, localFiles, segments, segDocs,
                 chunkIndex, inflight, completedSegments, successfulSegments,
                 failedSegments, started, inferCalls, vseg, vtries>>
  /\ UNCHANGED <<uvarsRest, ivars, cvars, svars, kvars, pvars, avars, lvars>>

\* POST /api/analysis/trigger for the video, the r-th such request: the
\* update of the document and the call of processVideoInBackground.
TriggerRun(r, userId) ==
  /\ runAt[r] = 0
  /\ \A q \in 1..(r - 1) : runAt[q] # 0
  /\ TriggerCode("v1", userId) = 200
  /\ vdoc' = [vdoc EXCEPT !.status = "analyzing",
                          !.analysisProgress = 0,
                          !.currentStep = "Initializing analysis..."]
  /\ runAt' = [runAt EXCEPT ![r] = 1]
  /\ resp' = [NoResp EXCEPT !.op = "trigger", !.code = 200,
                            !.status = "analyzing"]
  /\ TriggersFrame

\* Run r makes its next progress update; the stage after it succeeds.
RunProgress(r) ==
  /\ runAt[r] \in 1..Len(WriteOrder)
  /\ \E w \in ProgressWrites :
       /\ w.at = WriteOrder[runAt[r]]
       /\ vdoc' = [vdoc EXCEPT !.analysisProgress = w.progress,
                               !.currentStep = StepAfter(vdoc.currentStep, w.step)]
  /\ runAt' = [runAt EXCEPT ![r] = @ + 1]
  /\ resp' = NoResp
  /\ TriggersFrame

\* Run r leaves the batch loop and makes the terminal update: s of the n
\* segments succeeded.
RunFinishes(r, s, n) ==
  /\ runAt[r] = Len(WriteOrder) + 1
  /\ vdoc' = FinalUpdate(vdoc, s, n - s, n)
  /\ runAt' = [runAt EXCEPT ![r] = RunEnded]
  /\ resp' = NoResp
  /\ TriggersFrame

\* A stage of run r throws: the update of the outer catch block.
RunFails(r, stage) ==
  /\ runAt[r] \in 2..(Len(WriteOrder) + 1)
  /\ vdoc' = FailureUpdate(vdoc, stage)
  /\ runAt' = [runAt EXCEPT ![r] = RunEnded]
  /\ resp' = NoResp
  /\ TriggersFrame

NoRuns == runAt = [r \in 1..MaxRuns |-> 0]

\* ------------------------------ the analysis of one segment in stage 9
AnalysisFrame == UNCHANGED <<uvars, rvars, ivars, cvars, kvars, pvars, tvars, lvars>>

\* What Promise.all([audio, visual]) and the callback's try/catch make of
\* the two calls: a failure result as soon as one call has thrown, a success
\* result when both have returned, nothing before.
ChunkResult(audio, visual) ==
  IF audio = "failed" \/ visual = "failed" THEN "failure"
  ELSE IF audio \in AudioResults /\ visual \in VisualResults THEN "success"
  ELSE "pending"

\* The callback of chunk.map starts the two calls of the segment.
AnalyzeSegment ==
  /\ segResult = "none"
  /\ segDoc # AbsentDoc
  /\ audioCall' = "pending"
  /\ visualCall' = "pending"
  /\ segResult' = "pending"
  /\ UNCHANGED svars
  /\ AnalysisFrame

\* analyzeAudioSegment settles.  A result that comes after the segment's
\* chunk result was made is dropped.
AudioSettles(res) ==
  /\ audioCall = "pending"
  /\ audioCall' = res
  /\ segResult' = IF segResult = "pending" THEN ChunkResult(res, visualCall)
                  ELSE segResult
  /\ UNCHANGED <<visualCall, svars>>
  /\ AnalysisFrame

\* analyzeVideoSegment settles.
VisualSettles(res) ==
  /\ visualCall = "pending"
  /\ visualCall' = res
  /\ segResult' = IF segResult = "pending" THEN ChunkResult(audioCall, res)
                  ELSE segResult
  /\ UNCHANGED <<audioCall, svars>>
  /\ AnalysisFrame

\* UpdateSegment writing what results there are for a failure result.
UpdateSegmentPartial(ok) ==
  /\ segResult \in {"success", "failure"}
  /\ IF ok
       THEN /\ segDoc' = SetMerge(segDoc, ResultData(audioCall, visualCall, wclock))
            /\ wlast' = <<audioCall, visualCall,
                          HoldsResults(segDoc, audioCall, visualCall)>>
            /\ segResult' = "stored"
       ELSE /\ segResult' = "write_failed"
            /\ UNCHANGED <<segDoc, wlast>>
  /\ UNCHANGED <<wclock, audioCall, visualCall>>
  /\ AnalysisFrame

\* The update callback of the segment: a failure result is skipped, a
\* success result is written with segmentRef.set, which may throw (~ok).
UpdateSegment(ok) ==
  /\ segResult \in {"success", "failure"}
  /\ IF segResult = "failure"
       THEN /\ segResult' = "skipped"
            /\ UNCHANGED <<segDoc, wlast>>
       ELSE IF ok
       THEN /\ segDoc' = SetMerge(segDoc, ResultData(audioCall, visualCall, wclock))
            /\ wlast' = <<audioCall, visualCall,
                          HoldsResults(segDoc, audioCall, visualCall)>>
            /\ segResult' = "stored"
       ELSE /\ segResult' = "write_failed"
            /\ UNCHANGED <<segDoc, wlast>>
  /\ UNCHANGED <<wclock, audioCall, visualCall>>
  /\ AnalysisFrame

NoAnalysis ==
  /\ audioCall = "none"
  /\ visualCall = "none"
  /\ segResult = "none"

\* ------------------------------------ the object of the assembled video
\* Largest number of videos finalized.
MaxVideos == 2

\* A file name is the sequence of its parts between the dots, which is what
\* fileName.split('.') returns: <<"my", "clip", "mov">> is my.clip.mov,
\* <<"clip">> has no dot and <<"clip", "">> ends in one.
VideoFiles ==
  {[name |-> <<"clip", "mp4">>,       type |-> "video/mp4"],
   [name |-> <<"clip", "MP4">>,       type |-> "video/mp4"],
   [name |-> <<"my", "clip", "mp4">>, type |-> "video/mp4"],
   [name |-> <<"clip">>,              type |-> "video/mp4"],
   [name |-> <<"clip", "">>,          type |-> "video/mp4"],
   [name |-> <<"clip", "mov">>,       type |-> "video/quicktime"],
   [name |-> <<"clip", "avi">>,       type |-> "video/x-msvideo"],
   [name |-> <<"clip", "webm">>,      type |-> "video/webm"],
   [name |-> <<"clip", "wmv">>,       type |-> "video/x-ms-wmv"]}

\* fileName.split('.').pop() || 'mp4'
ExtensionOf(fileName) ==
  IF fileName[Len(fileName)] = "" THEN "mp4" ELSE fileName[Len(fileName)]

\* The object path videos/<user>/<video>.<ext>.
VideoPath(userId, videoId, extension) ==
  [dir |-> "videos", user |-> userId, video |-> videoId, ext |-> extension]

\* generateVideoPath
GenerateVideoPath(userId, videoId, fileName) ==
  VideoPath(userId, videoId, ExtensionOf(fileName))

\* finalVideoPath of finalize: generateVideoPath is handed the extension of
\* the session's file name in the place of a file name.
FinalVideoPath(userId, videoId, fileName) ==
  GenerateVideoPath(userId, videoId, <<ExtensionOf(fileName)>>)

\* sourceFile of downloadVideo
DownloadSourceFile(videoId, userId) == VideoPath(userId, videoId, "mp4")

NoDownload == [videoId |-> 0, source |-> VideoPath("", 0, ""), found |-> FALSE]

PathFrame ==
  UNCHANGED <<uvars, rvars, ivars, cvars, svars, kvars, pvars, tvars, avars>>

\* finalize of a session of the user for the file: bucket.combine writes the
\* object at finalVideoPath and the video document records it.
ComposeVideo(userId, file) ==
  /\ Len(pathDocs) < MaxVideos
  /\ LET videoId == Len(pathDocs) + 1
         finalVideoPath == FinalVideoPath(userId, videoId, file.name)
     IN /\ objectPaths' = objectPaths \cup {finalVideoPath}
        /\ pathDocs' = Append(pathDocs,
                         [videoId |-> videoId, userId |-> userId,
                          fileName |-> file.name, fileType |-> file.type,
                          storageLocation |-> finalVideoPath])
  /\ download' = NoDownload
  /\ PathFrame

\* Stage 1 of the run that finalize triggered for video v: downloadVideo
\* with the videoId and userId of the trigger body.
DownloadStage(v) ==
  /\ v \in 1..Len(pathDocs)
  /\ LET sourceFile == DownloadSourceFile(v, pathDocs[v].userId)
     IN download' = [videoId |-> v, source |-> sourceFile,
                     found |-> sourceFile \in objectPaths]
  /\ UNCHANGED <<objectPaths, pathDocs>>
  /\ PathFrame

NoVideoPaths ==
  /\ objectPaths = {}
  /\ pathDocs = <<>>
  /\ download = NoDownload

NoOthers ==
  NoSegmentDoc /\ NoClient /\ NoReports /\ NoRuns /\ NoAnalysis /\ NoVideoPaths

\* -------------------------------------------------------- specifications
InitUpload ==
  /\ session \in {NewSession(n) : n \in 1..MaxChunks}
  /\ expired = FALSE
  /\ chunkStore = {}
  /\ finalObjects = {}
  /\ videos = <<>>
  /\ composeCalls = 0
  /\ cleanupQueue = {}
  /\ triggerPending = {}
  /\ resp = NoResp
  /\ NotAnalysed(0)
  /\ NoInitiate
  /\ NoCall
  /\ NoOthers

NextUpload ==
  \/ \E c \in Callers, i \in ChunkInputs, st \in StatusInputs :
       /\ (c # <<Owner, "s1">> => i = 0 /\ st = "completed")
       /\ ReportChunkStatus(c[1], c[2], i, st)
  \/ \E c \in Callers, e \in SUBSET (0..(MaxChunks - 1)) :
       /\ (c # <<Owner, "s1">> => e = {})
       /\ Resume(c[1], c[2], e)
  \/ \E i \in 0..(MaxChunks - 1) : UploadChunk(i)
  \/ Expire

\* The report, resume and chunk-upload traffic of a session before finalize.
SpecUpload == InitUpload /\ [][NextUpload]_vars

NextFinalize ==
  \/ \E c \in Callers, o \in ComposeOutcomes, t \in BOOLEAN :
       /\ (c # <<Owner, "s1">> => o = "ok" /\ ~t)
       /\ Finalize(c[1], c[2], o, t)
  \/ \E i \in 0..(MaxChunks - 1) : UploadChunk(i)
  \/ Expire
  \/ \E i \in 0..(MaxChunks - 1), ok \in BOOLEAN : CleanupChunk(i, ok)
  \/ \E v \in 1..MaxCompose, a \in BOOLEAN : TriggerSettles(v, a)

\* Finalize requests with the chunk uploads, cleanup and trigger around them.
SpecFinalize == InitUpload /\ [][NextFinalize]_vars

\* The callbacks of the trigger fetch are promise reactions of the running
\* server process: once the fetch has settled they are run.
FairTrigger ==
  WF_vars(\E v \in 1..MaxCompose, a \in BOOLEAN : TriggerSettles(v, a))

\* The owner's finalize requests with the chunk uploads before them and the
\* settling of the trigger fetches after them.
NextTrigger ==
  \/ \E o \in ComposeOutcomes : Finalize(Owner, "s1", o, FALSE)
  \/ \E i \in 0..(MaxChunks - 1) : UploadChunk(i)
  \/ \E v \in 1..MaxCompose, a \in BOOLEAN : TriggerSettles(v, a)

SpecTrigger == InitUpload /\ [][NextTrigger]_vars /\ FairTrigger

\* The owner's progress reports alone, of any index and status.
NextOwnerReports ==
  \E i \in ChunkInputs, st \in StatusInputs : ReportChunkStatus(Owner, "s1", i, st)

SpecOwnerReports == InitUpload /\ [][NextOwnerReports]_vars

\* Chunk counts of large files: 995 MiB and 1000 MiB in 5 MiB chunks, 5 GiB
\* in 10 MiB chunks.
LargeTotals ==
  {TotalChunks(Bytes(995 * 1024, 0), CalculateChunkSize(Bytes(995 * 1024, 0))),
   TotalChunks(Bytes(1000 * 1024, 0), CalculateChunkSize(Bytes(1000 * 1024, 0))),
   TotalChunks(MAX_FILE_SIZE, CalculateChunkSize(MAX_FILE_SIZE))}

InitReport ==
  /\ session \in {NewSession(n) : n \in LargeTotals}
  /\ expired = FALSE
  /\ chunkStore = {}
  /\ finalObjects = {}
  /\ videos = <<>>
  /\ composeCalls = 0
  /\ cleanupQueue = {}
  /\ triggerPending = {}
  /\ resp = NoResp
  /\ NotAnalysed(0)
  /\ NoInitiate
  /\ NoCall
  /\ NoOthers

\* The uploader reports its chunks in index order, each one failed or
\* completed, a failed one again until it is completed.
NextReport ==
  \E st \in {"completed", "failed"} :
    /\ Len(session.chunksCompleted) < session.totalChunks
    /\ ReportChunkStatus(Owner, "s1", Len(session.chunksCompleted), st)

\* The progress reports of the upload of a large file.
SpecReport == InitReport /\ [][NextReport]_vars

\* Two report requests of the owner, each of any index, completed or failed,
\* handled side by side: the read of one may fall between the read and the
\* update of the other.
NextConcurrentReports ==
  \/ \E r \in Reporters, i \in ChunkInputs, st \in {"completed", "failed"} :
       ReportRead(r, i, st)
  \/ \E r \in Reporters : ReportWrite(r)

SpecConcurrentReports == InitUpload /\ [][NextConcurrentReports]_vars

\* The three session handlers called by another authenticated user, among
\* the owner's reports, finalize requests and chunk uploads.
NextAccess ==
  \/ \E i \in ChunkInputs, st \in StatusInputs :
       ReportChunkStatus("u2", "s1", i, st)
  \/ \E e \in SUBSET (0..(MaxChunks - 1)) : Resume("u2", "s1", e)
  \/ \E o \in ComposeOutcomes, t \in BOOLEAN : Finalize("u2", "s1", o, t)
  \/ \E i \in 0..(MaxChunks - 1), st \in {"completed", "failed"} :
       ReportChunkStatus(Owner, "s1", i, st)
  \/ \E o \in {"ok", "throws"} : Finalize(Owner, "s1", o, FALSE)
  \/ \E i \in 0..(MaxChunks - 1) : UploadChunk(i)
  \/ Expire

SpecAccess == InitUpload /\ [][NextAccess]_vars

InitRun ==
  /\ \E d \in Durations : NotAnalysed(d)
  /\ session = [NewSession(1) EXCEPT !.status = "completed", !.videoId = 1]
  /\ expired = FALSE
  /\ chunkStore = {}
  /\ finalObjects = {<<1, "nonzero">>}
  /\ videos = <<>>
  /\ composeCalls = 1
  /\ cleanupQueue = {}
  /\ triggerPending = {}
  /\ resp = NoResp
  /\ NoInitiate
  /\ NoCall
  /\ NoOthers

\* A step of processVideoInBackground.
PipelineStep ==
  \/ WriteProgress
  \/ \E ok \in BOOLEAN : DownloadVideo(ok)
  \/ \E ok \in BOOLEAN : ValidateVideo(ok)
  \/ StoreMetadata
  \/ \E o \in StandardizeOutcomes : StandardizeVideo(o)
  \/ \E o \in ExtractOutcomes : ExtractAudioTrack(o)
  \/ PlanSegmentation
  \/ \E ok \in BOOLEAN : SegmentVideo(ok)
  \/ \E ok \in BOOLEAN : VerifyAllSegmentsReady(ok)
  \/ \E exists \in BOOLEAN, size \in {0, MinSegmentBytes, MinSegmentBytes + 1} :
       VerifyAttempt(exists, size)
  \/ \E ok \in BOOLEAN : CommitPlaceholders(ok)
  \/ BatchBegin
  \/ \E j \in 1..PARALLEL_LIMIT, ok \in BOOLEAN : AnalysisSettles(j, ok)
  \/ StartUpdates
  \/ \E j \in 1..PARALLEL_LIMIT, ok \in BOOLEAN : WriteSettles(j, ok)
  \/ BatchEnd
  \/ FinishAnalysis
  \/ \E ok \in BOOLEAN : CleanupFiles(ok)
  \/ RecordFailure

NextRun ==
  \/ \E v \in VideoIds, u \in UserIds : Trigger(v, u)
  \/ PipelineStep

\* One triggered analysis run of a video.
SpecRun == InitRun /\ [][NextRun]_vars

\* Short videos only.
InitRetry == InitRun /\ duration <= SegmenterSeconds + 1

\* One run of a video and the retry requests made once the run is over.
NextRetry ==
  \/ NextRun
  \/ \E u \in {Owner, "u2", "anon"}, v \in VideoIds, a \in RetryActions :
       /\ pc \in {"failed", "done"}
       /\ (u # Owner \/ v # "v1" => a = "retry")
       /\ RetryAnalysis(u, v, a)

\* The background function runs on once it was started; requests are made
\* or not as the users choose.
FairPipeline == WF_vars(PipelineStep)

SpecRetry == InitRetry /\ [][NextRetry]_vars /\ FairPipeline

\* The trigger requests for one video, sent by finalize and by any client
\* of the open endpoint, and the runs they start.
NextTriggers ==
  \/ \E r \in 1..MaxRuns, u \in {Owner, "u2"} : TriggerRun(r, u)
  \/ \E r \in 1..MaxRuns : RunProgress(r)
  \/ \E r \in 1..MaxRuns, s \in 0..1 : RunFinishes(r, s, 1)
  \/ \E r \in 1..MaxRuns : RunFails(r, "stage")

\* A video of one segment.
InitTriggers == InitRun /\ duration = 1

SpecTriggers == InitTriggers /\ [][NextTriggers]_vars

InitInitiate ==
  /\ NoInitiate
  /\ NoCall
  /\ NoOthers
  /\ NotAnalysed(0)
  /\ session = NewSession(1)
  /\ expired = FALSE
  /\ chunkStore = {}
  /\ finalObjects = {}
  /\ videos = <<>>
  /\ composeCalls = 0
  /\ cleanupQueue = {}
  /\ triggerPending = {}
  /\ resp = NoResp

\* One request without a token is tried; a request that the validation
\* rejects makes no storage or database call.
NextInitiate ==
  \E u \in InitiateUsers, fn \in FileNames, fs \in FileSizes, ft \in FileTypes,
     o \in InitiateOutcomes :
    /\ (u = "anon" => fn = "clip.mp4" /\ fs = Bytes(1, 0) /\ ft = "video/mp4")
    /\ (InitiateReject(u, fn, fs, ft) # 0 => o = "ok")
    /\ Initiate(u, fn, fs, ft, o)

\* Initiate requests.
SpecInitiate == InitInitiate /\ [][NextInitiate]_vars

\* Nothing uploaded, analysed or initiated; no inference call made yet.
InitCall == InitInitiate

NextCall ==
  \/ \E kind \in InferenceKinds : StartCall(kind)
  \/ \E answer \in Answers : CallVisualAnalysisService(answer)
  \/ \E answer \in Answers : CallTranscriptionService(answer)

\* One inference call of one segment, audio or visual.
SpecCall == InitCall /\ [][NextCall]_vars

\* uploadFile after the initiate response.
InitClient ==
  /\ upTotal \in 1..MaxClientChunks
  /\ upChunk = <<>>
  /\ upPc = "start"
  /\ upBatch = 0
  /\ NoSegmentDoc
  /\ NoReports
  /\ NoRuns
  /\ NoAnalysis
  /\ NoVideoPaths
  /\ NoCall
  /\ NoInitiate
  /\ NotAnalysed(0)
  /\ session = NewSession(1)
  /\ expired = FALSE
  /\ chunkStore = {}
  /\ finalObjects = {}
  /\ videos = <<>>
  /\ composeCalls = 0
  /\ cleanupQueue = {}
  /\ triggerPending = {}
  /\ resp = NoResp

NextClient ==
  \/ StartUploads
  \/ \E i \in 0..(MaxClientChunks - 1), ok \in BOOLEAN : ChunkUploadSettles(i, ok)
  \/ \E i \in 0..(MaxClientChunks - 1), ok \in BOOLEAN : ChunkReportSettles(i, ok)
  \/ AwaitBatch
  \/ VerifyCompleted

\* The chunk uploads of one file by the web client.
SpecClient == InitClient /\ [][NextClient]_vars

InitSegmentWrite == InitInitiate

NextSegmentWrite ==
  \/ CommitPlaceholder
  \/ \E audio \in AudioResults, visual \in VisualResults : WriteResult(audio, visual)
  \/ ClockTick

\* The writes of one segment document: the placeholder and the results.
SpecSegmentWrite == InitSegmentWrite /\ [][NextSegmentWrite]_vars

InitSegmentAnalysis == InitInitiate

\* One segment in one run: its placeholder is committed in stage 8, its two
\* calls are made and its result is written or skipped in stage 9.
NextSegmentAnalysis ==
  \/ (segDoc = AbsentDoc /\ CommitPlaceholder)
  \/ AnalyzeSegment
  \/ \E res \in AudioResults \cup {"failed"} : AudioSettles(res)
  \/ \E res \in VisualResults \cup {"failed"} : VisualSettles(res)
  \/ \E ok \in BOOLEAN : UpdateSegment(ok)
  \/ ClockTick

SpecSegmentAnalysis == InitSegmentAnalysis /\ [][NextSegmentAnalysis]_vars

InitVideoPath == InitInitiate

\* Finalized uploads of files of every supported type and the download
\* stage of their analysis runs.
NextVideoPath ==
  \/ \E u \in {"u1", "u2"}, file \in VideoFiles : ComposeVideo(u, file)
  \/ \E v \in 1..MaxVideos : DownloadStage(v)

SpecVideoPath == InitVideoPath /\ [][NextVideoPath]_vars

\* ================================================================ claims
Expected == 0..(session.totalChunks - 1)
Present == chunkStore \cap Expected

\* A step in which the owner's request for session s1 is handled.
OwnerResume(e) == Resume(Owner, "s1", e)
OwnerFinalize(o) == Finalize(Owner, "s1", o, FALSE)

\* C1: after any sequence of progress reports the stored completed and failed
\* arrays of the session have no chunk index in common.
C1_Disjoint ==
  Range(session.chunksCompleted) \cap Range(session.chunksFailed) = {}

\* C1 witness: a report has just been stored and both arrays hold an index.
C1_Witness ==
  /\ resp.op = "report" /\ resp.code = 200
  /\ Len(session.chunksCompleted) > 0
  /\ Len(session.chunksFailed) > 0

\* C2 as stated: a successful resume returns existing = exactly the indices
\* present in the bucket, missing = exactly the absent ones, a URL for each
\* missing index and no other, and ready_to_finalize iff all are present.
C2_Original ==
  (resp.op = "resume" /\ resp.code = 200) =>
    /\ Range(resp.existing) = Present
    /\ Range(resp.missing) = Expected \ Present
    /\ resp.urls = Expected \ Present
    /\ resp.status = (IF Present = Expected THEN "ready_to_finalize"
                                           ELSE "resuming")

\* C2 amended: a resume by the owner of an unexpired session returns
\* existing = the present indices whose existence check answered (all the
\* present ones when no check throws), missing = every other expected index
\* (absent, or its check threw), a URL for exactly the missing indices, and
\* ready_to_finalize iff existing holds all n indices; the stored completed
\* and failed arrays play no part.
C2_Amended ==
  [][\A e \in SUBSET (0..(MaxChunks - 1)) :
       (~expired /\ resp'.op = "resume" /\ OwnerResume(e)) =>
         /\ resp'.code = 200
         /\ Range(resp'.existing) = Present \ e
         /\ Range(resp'.missing) = Expected \ (Present \ e)
         /\ resp'.urls = Expected \ (Present \ e)
         /\ Len(resp'.existing) + Cardinality(resp'.urls) = session.totalChunks
         /\ resp'.status = (IF Present \ e = Expected THEN "ready_to_finalize"
                                                       ELSE "resuming")]_vars

\* C2 witness: a resume answered with some chunks present and some missing
\* while the stored completed array disagrees with the bucket.
C2_Witness ==
  /\ resp.op = "resume" /\ resp.code = 200
  /\ Len(resp.existing) > 0 /\ Len(resp.missing) > 0
  /\ Range(session.chunksCompleted) # Range(resp.existing)
  /\ Len(session.chunksCompleted) > 0

\* C3 as stated: a finalize that finds an expected chunk absent calls no
\* compose, lists exactly the missing indices, creates no Video and leaves
\* the session failed.
C3_Claim ==
  [][\A o \in ComposeOutcomes :
       (OwnerFinalize(o) /\ Present # Expected) =>
         /\ composeCalls' = composeCalls
         /\ videos' = videos
         /\ Range(resp'.missing) = Expected \ Present
         /\ session'.status = "failed"]_vars

\* C4 as stated: finalize on a completed session returns the stored video id,
\* calls no compose, creates no Video and leaves the session completed.
C4_Claim ==
  [][\A o \in ComposeOutcomes :
       (OwnerFinalize(o) /\ session.status = "completed") =>
         /\ resp'.videoId = session.videoId
         /\ composeCalls' = composeCalls
         /\ videos' = videos
         /\ session'.status = "completed"]_vars

\* ------------------------------------------------ claims on the pipeline
\* Segment documents that hold analysis results.
Stored == {i \in 1..Len(segDocs) : segDocs[i] = "analyzed"}

\* The run has left the batch loop through the terminal update.
Finished == pc \in {"finally", "done"} /\ err = ""

\* Positions of the batch loop of stage 9.
BatchPcs == {"batch", "analysis", "updates"}

\* Failures of stage 9 so far: segments of finished batches without stored
\* results, and segments of the current batch whose failure has been counted.
FailedSoFar ==
  Cardinality({i \in 1..completedSegments : segDocs[i] # "analyzed"})
  + Cardinality({j \in 1..Len(inflight) :
                   inflight[j] \in {"skipped", "write_failed"}})

\* C5: when a run over n >= 1 segments has made its terminal update with s
\* segments analysed and stored, the status is analysis_complete iff
\* s/n >= 0.9, analysis_partial iff 0.5 <= s/n < 0.9 and analysis_failed iff
\* s/n < 0.5.
C5_Thresholds ==
  LET n == Len(segments)
      s == Cardinality(Stored)
  IN (Finished /\ n >= 1) =>
       /\ (vdoc.status = "analysis_complete") <=> (10 * s >= 9 * n)
       /\ (vdoc.status = "analysis_partial") <=> (2 * s >= n /\ 10 * s < 9 * n)
       /\ (vdoc.status = "analysis_failed") <=> (2 * s < n)

\* C5 witness: a finished run with 8 of 10 segments stored, just below the
\* 90% boundary.
C5_Witness ==
  /\ pc = "done" /\ err = ""
  /\ Len(segments) = 10
  /\ Cardinality(Stored) = 8
  /\ vdoc.status = "analysis_partial"

\* What C6 requires of a step taken inside the batch loop.
BatchLoopStep ==
  pc \in BatchPcs =>
    /\ pc' \in BatchPcs \cup {"finally"}
    /\ err' = ""
    /\ Stored \subseteq Stored'
    /\ (pc = "analysis" /\ pc' = "updates" =>
          \A j \in 1..Len(inflight) :
            inflight[j] = "analysed" => inflight'[j] = "writing")
    /\ (pc' = "finally" =>
          /\ chunkIndex = NumBatches(Len(segments))
          /\ completedSegments = Len(segments)
          /\ successfulSegments + failedSegments = Len(segments)
          /\ vdoc'.status = FinalStatus(Cardinality(Stored), Len(segments)))

StagesUpTo(st) == {Stages[i] : i \in 1..StageIndex(st)}

C8_Claim ==
  LET L == SEGMENT_DURATION
      D == duration
      n == CeilDiv(D, L)
  IN ("segment" \in started /\ err # "segment" /\ D > 0) =>
       /\ Len(segments) = n
       /\ \A i \in 1..Len(segments) :
            /\ segments[i].segmentNumber = i
            /\ segments[i].startTime = (i - 1) * L
            /\ segments[i].endTime = Min(i * L, D)
       /\ \A i \in 1..(Len(segments) - 1) :
            segments[i].endTime = segments[i + 1].startTime
       /\ segments[Len(segments)].duration = D - L * (n - 1)

\* C9 as stated: a finished run of the 47-second video in which no segment
\* failed has 2 segments of 30 and 17 seconds and ends analysis_complete
\* with segmentCount = 2 and successfulSegments = 2 in the summary.
C9_Claim ==
  (duration = 47 /\ pc = "done" /\ err = "" /\ failedSegments = 0) =>
    /\ Len(segments) = 2
    /\ segments[1].duration = 30
    /\ segments[2].duration = 17
    /\ vdoc.status = "analysis_complete"
    /\ vdoc.summary.segmentCount = 2
    /\ vdoc.summary.successfulSegments = 2

\* C10: no step of a run writes an analysisProgress below the value the
\* video document holds, from the trigger's 0 to the terminal write.
C10_ProgressMonotone ==
  [][(vdoc'.analysisProgress >= vdoc.analysisProgress)
     /\ (pc = "idle" /\ pc' # "idle" => vdoc'.analysisProgress = 0)]_vars

\* C10 witness: a finished run of several batches whose last batch update
\* wrote a value above 70 before the terminal 100.
C10_Witness ==
  /\ pc = "done" /\ err = ""
  /\ NumBatches(Len(segments)) >= 3
  /\ vdoc.analysisProgress = 100

\* The step description and progress value of each stage's own update.
StageMark ==
  [download    |-> [step |-> "Downloading video", progress |-> 5],
   validate    |-> [step |-> "Validating video", progress |-> 10],
   standardize |-> [step |-> "Standardizing video", progress |-> 15],
   audio       |-> [step |-> "Extracting audio", progress |-> 18],
   segment     |-> [step |-> "Creating video segments", progress |-> 25],
   verify      |-> [step |-> "Verifying segment availability", progress |-> 35],
   commit      |-> [step |-> "Storing segment metadata", progress |-> 45],
   analysis    |-> [step |-> "AI Analysis (Self-Hosted Parallel Processing)",
                    progress |-> 70]]

\* The stage whose main work is executing or has thrown and is not yet
\* recorded as a failure; "" when there is none.
StageAtWork ==
  IF pc \in {"download", "validate", "standardize", "audio", "segment",
             "verify", "commit"} THEN pc
  ELSE IF pc = "verifying" THEN "verify"
  ELSE IF pc \in {"analysis", "updates"} THEN "analysis"
  ELSE IF pc \in {"finally", "catch"} /\ err # "" THEN err
  ELSE ""

\* C11: while the work of a stage (download, validate, standardize, extract
\* audio, segment, verify, store placeholders, an analysis batch) is
\* executing or has thrown, the video document already holds that stage's
\* step description and progress value, and for a batch the batch's value.
C11_StepBeforeWork ==
  StageAtWork # "" =>
    /\ vdoc.currentStep = StageMark[StageAtWork].step
    /\ StageAtWork # "analysis" =>
          vdoc.analysisProgress = StageMark[StageAtWork].progress
    /\ StageAtWork = "analysis" =>
          vdoc.analysisProgress =
            BatchProgress(chunkIndex, NumBatches(Len(segments)))

\* C11 witness: segment verification has thrown and the failure is not yet
\* recorded.
C11_Witness ==
  /\ pc = "finally" /\ err = "verify"
  /\ vdoc.currentStep = "Verifying segment availability"

\* What C12 requires of a step that handles the owner's resume or finalize
\* after the expiry instant.
ExpiredRejected ==
  expired =>
    /\ \A e \in SUBSET (0..(MaxChunks - 1)) :
         (resp'.op = "resume" /\ OwnerResume(e)) =>
           /\ resp'.code = 410
           /\ session' = session
           /\ composeCalls' = composeCalls
           /\ videos' = videos
    /\ \A o \in ComposeOutcomes, t \in BOOLEAN :
         (resp'.op = "finalize" /\ Finalize(Owner, "s1", o, t)) =>
           /\ resp'.code = 410
           /\ session' = session
           /\ composeCalls' = composeCalls
           /\ videos' = videos

\* C12 as stated: resume and finalize of an expired session are rejected
\* with an expired error whatever chunks are present, and neither changes
\* the session, calls compose or creates a Video.
C12_Claim == [][ExpiredRejected]_vars

\* What C13 requires of a step that handles a request of user u2, who does
\* not own session s1: nothing stored changes, and a request that carries
\* its fields is answered 403.
StrangerRejected ==
  /\ \A i \in ChunkInputs, st \in StatusInputs :
       (resp'.op = "report" /\ ReportChunkStatus("u2", "s1", i, st)) =>
         /\ (st # "" => resp'.code = 403)
         /\ UNCHANGED <<session, chunkStore, finalObjects, videos, composeCalls>>
  /\ \A e \in SUBSET (0..(MaxChunks - 1)) :
       (resp'.op = "resume" /\ Resume("u2", "s1", e)) =>
         /\ resp'.code = 403
         /\ resp'.urls = {}
         /\ UNCHANGED <<session, chunkStore, finalObjects, videos, composeCalls>>
  /\ \A o \in ComposeOutcomes, t \in BOOLEAN :
       (resp'.op = "finalize" /\ Finalize("u2", "s1", o, t)) =>
         /\ resp'.code = 403
         /\ UNCHANGED <<session, chunkStore, finalObjects, videos, composeCalls>>

\* C13: reportChunkStatus, resume and finalize called by an authenticated
\* user who is not the session's owner each answer 403 and leave the session
\* document, the bucket and the videos collection unchanged.
C13_StrangerRejected == [][StrangerRejected]_vars

\* C13 witness: a request of the other user has just been refused while the
\* session holds reported chunks and every chunk object is in the bucket.
C13_Witness ==
  /\ resp.op = "finalize" /\ resp.code = 403
  /\ Present = Expected
  /\ Len(session.chunksCompleted) > 0
  /\ session.status = "uploading_complete"

\* What C14 requires of a step: a write to the video document or to its
\* segment documents is made only for a request that carried the owner's id,
\* and a trigger request with another id is refused without a write.
OwnerScopedWrite ==
  /\ (vdoc' # vdoc \/ segDocs' # segDocs) =>
       (IF pc = "idle" THEN runUser' ELSE runUser) = Owner
  /\ \A u \in UserIds \ {Owner, ""} :
       (resp'.op = "trigger" /\ Trigger("v1", u)) =>
         /\ resp'.code \in {401, 403}
         /\ vdoc' = vdoc
         /\ segDocs' = segDocs

\* C14 as stated: the trigger and its pipeline write to a Video or its
\* Segments only when the owner id of the request equals the Video's stored
\* owner id; a trigger with another owner id is rejected and changes nothing.
C14_Claim == [][OwnerScopedWrite]_vars

\* ------------------------------------------------------ claims on initiate
\* The request has an unsupported type, a size outside the limits or a
\* missing field.
BadInitiate(fn, fs, ft) ==
  \/ fn = "" \/ ft = "" \/ fs = Bytes(0, 0)
  \/ ft \notin SUPPORTED_VIDEO_TYPES
  \/ SizeLt(fs, Bytes(1, 0))
  \/ SizeLt(Bytes(5 * 1024 * 1024, 0), fs)

\* What C15 requires of a step that handles such a request of a signed-in
\* user.
BadInitiateRejected ==
  \A fn \in FileNames, fs \in FileSizes, ft \in FileTypes :
    (BadInitiate(fn, fs, ft) /\ Initiate("u1", fn, fs, ft, "ok")) =>
      /\ iresp'.code \in 400..499
      /\ newSessions' = newSessions
      /\ signed' = 0
      /\ iresp'.chunkUrls = <<>>

\* C15: initiate with an unsupported file type, a size below the minimum or
\* above the maximum, or a missing field answers 4xx, creates no session
\* document and signs and returns no URL.
C15_BadInitiateRejected == [][BadInitiateRejected]_vars

\* C15 witness: a request has been rejected after an earlier one created a
\* session.
C15_Witness ==
  /\ iresp.code = 400
  /\ Len(newSessions) = 1
  /\ signed = 0

\* C16: after a successful initiate the stored session has chunkSize 5 MiB
\* when fileSize < 1 GiB and 10 MiB otherwise, totalChunks the least n with
\* n * chunkSize >= fileSize, empty completed and failed arrays, and the
\* response holds exactly totalChunks URLs, the i-th for chunk index i of
\* that session and owner.
C16_InitiateSession ==
  iresp.code = 200 =>
    LET d == newSessions[iresp.uploadSessionId]
        n == d.totalChunks
        ck == d.chunkSize.kib
    IN /\ iresp.uploadSessionId = Len(newSessions)
       /\ d.chunkSize = (IF SizeLt(d.fileSize, Bytes(1024 * 1024, 0))
                           THEN Bytes(5 * 1024, 0) ELSE Bytes(10 * 1024, 0))
       /\ ~SizeLt(Bytes(n * ck, 0), d.fileSize)
       /\ SizeLt(Bytes((n - 1) * ck, 0), d.fileSize)
       /\ d.chunksCompleted = <<>> /\ d.chunksFailed = <<>>
       /\ iresp.totalChunks = n
       /\ Len(iresp.chunkUrls) = n
       /\ signed = n
       /\ \A i \in 0..(n - 1) :
            iresp.chunkUrls[i + 1] =
              <<"uploads", d.userId, iresp.uploadSessionId, i>>

\* C16 witness: a 5 GiB file got 512 chunks of 10 MiB.
C16_Witness ==
  /\ iresp.code = 200
  /\ iresp.totalChunks = 512
  /\ iresp.chunkSize = Bytes(10 * 1024, 0)
  /\ Len(iresp.chunkUrls) = 512

\* What C17 requires of a step that handles a trigger request.
TriggerAnswer ==
  \A v \in VideoIds, u \in UserIds :
    (resp'.op = "trigger" /\ Trigger(v, u)) =>
      /\ (resp'.status = "analyzing" =>
            /\ vdoc'.status = "analyzing"
            /\ vdoc'.analysisProgress = 0
            /\ v = "v1")
      /\ (v = "v1" /\ u # "" =>
            resp' = [NoResp EXCEPT !.op = "trigger", !.code = 200,
                                   !.status = "analyzing"])
      /\ (pc' # "idle" <=> resp'.status = "analyzing")
      /\ (v = "vX" /\ u # "" =>
            /\ resp'.code = 500
            /\ vdoc' = vdoc)

\* C17: the trigger answers `analyzing` only with the video document already
\* updated to status analyzing and progress 0; the answer to an accepted
\* request is one fixed response, produced before any step of the pipeline;
\* the run is started exactly when that update succeeded, and an update that
\* throws is answered with an error and starts no run.
C17_TriggerAnswer ==
  /\ [][TriggerAnswer]_vars
  /\ [](pc # "idle" => vdoc.status # "uploaded")

\* C17 witness: the trigger has just answered `analyzing`; the run it
\* started has not taken a step.
C17_Witness ==
  /\ resp.op = "trigger" /\ resp.status = "analyzing"
  /\ pc = "w5"
  /\ vdoc.analysisProgress = 0

UnderAnalysis ==
  {completedSegments + j : j \in {i \in 1..Len(inflight) : inflight[i] = "analyzing"}}

\* What C19 requires of the step that starts a batch: every segment before
\* the batch is stored or counted failed, and the batch is the next run of
\* consecutive segment numbers.
BatchStartsAfterPrevious ==
  (pc = "batch" /\ pc' = "analysis") =>
    /\ inflight = <<>>
    /\ successfulSegments + failedSegments = completedSegments
    /\ completedSegments = inferCalls
    /\ UnderAnalysis' = (inferCalls + 1)..inferCalls'
    /\ inferCalls' - inferCalls \in 1..2
    /\ (inferCalls' - inferCalls = 2 \/ inferCalls' = Len(segments))

\* C19: during stage 9 at most 2 segments are under analysis at any moment;
\* the batches are consecutive runs of the segment list in segment-number
\* order that together cover it; and a batch starts only when every segment
\* of the batches before it has been stored or counted failed.
C19_BoundedBatches ==
  /\ [](/\ Cardinality(UnderAnalysis) <= 2
        /\ Len(inflight) <= 2
        /\ (pc \in BatchPcs =>
              /\ inferCalls = completedSegments + Len(inflight)
              /\ inferCalls <= Len(segments))
        /\ (Finished => inferCalls = Len(segments)))
  /\ [][BatchStartsAfterPrevious]_vars

\* C19 witness: both segments of the second batch are under analysis.
C19_Witness ==
  /\ pc = "analysis"
  /\ chunkIndex = 1
  /\ UnderAnalysis = {3, 4}

\* ----------------------------------------------- claims on inference calls
\* The failures the retry is meant for: rate limiting, a busy or failing
\* server, a timeout.
RetryableFailure(answer) == answer \in {"429", "500", "503", "aborted"}

\* C20: for the audio call and for the visual call alike, a call whose
\* attempts all ended in a retryable failure has failed only after
\* maxRetries attempts, and it slept baseDelay, then twice baseDelay,
\* between them.
C20_Claim ==
  (/\ cstate = "failed"
   /\ \A i \in 1..Len(ctrace) : RetryableFailure(ctrace[i].answer))
  => /\ Len(ctrace) = maxRetries
     /\ \A i \in 1..(maxRetries - 1) : ctrace[i].delay = baseDelay * Pow2(i - 1)

\* The answers that are not to be retried: malformed input.
NonRetryableAnswer(answer) == answer = "400"

\* C21: for either inference call, a non-retryable answer ends the call:
\* it is the last answer the call receives and the call has failed with it.
C21_Claim ==
  \A i \in 1..Len(ctrace) :
    NonRetryableAnswer(ctrace[i].answer) => i = Len(ctrace) /\ cstate = "failed"

\* ------------------------------------------- claims on the segment document
NoTime(doc) == [p \in DOMAIN doc \ TimePaths |-> doc[p]]

ResultWriteStep(audio, visual) ==
  /\ wlast' = <<audio, visual, HoldsResults(segDoc, audio, visual)>>
  /\ WriteResult(audio, visual)

ResultWriteUpserts ==
  \A audio \in AudioResults, visual \in VisualResults :
    ResultWriteStep(audio, visual) =>
      LET data == ResultData(audio, visual, wclock)
      IN /\ (HoldsResults(segDoc, audio, visual) => NoTime(segDoc') = NoTime(segDoc))
         /\ (segDoc = AbsentDoc => segDoc' = data)
         /\ DOMAIN segDoc' = DOMAIN segDoc \cup DOMAIN data
         /\ \A p \in DOMAIN data : segDoc'[p] = data[p]
         /\ \A p \in DOMAIN segDoc \ DOMAIN data : segDoc'[p] = segDoc[p]

\* C22: a result write that repeats the results the document already holds
\* leaves the document as it was, the two times aside; a result write
\* creates the document when it is absent, and otherwise sets its own fields
\* and keeps every other field of the document.
C22_ResultWriteUpserts == [][ResultWriteUpserts]_vars

\* The same results were written a second time into a document that began
\* as a placeholder.
C22_Witness ==
  /\ Len(wlast) = 3
  /\ wlast[3]
  /\ "thumbnailPath" \in DOMAIN segDoc
  /\ segDoc["processingMetadata.analyzedAt"] = 2

\* C23: a run that has left the pipeline, with a terminal aggregate status
\* or with analysis_failed, has no local working file left: not the
\* downloaded original, not the standardized copy, not the extracted audio.
C23_Claim == pc \in {"done", "failed"} => localFiles = {}

\* ------------------------------------------------------ claims on compose
\* What C24 requires of a step in which finalize calls bucket.combine or
\* creates a Video.
ComposeVerified ==
  \A o \in ComposeOutcomes, t \in BOOLEAN :
    (resp'.op = "finalize" /\ Finalize(Owner, "s1", o, t)) =>
      /\ (composeCalls' # composeCalls =>
            /\ Present = Expected
            /\ FinalizeChunkPaths(session.totalChunks, chunkStore)
                 = AscendingFrom(0, session.totalChunks - 1, Expected))
      /\ ((videos' # videos \/ session'.status = "completed") =>
            /\ resp'.status = "uploaded"
            /\ <<resp'.videoId, "nonzero">> \in finalObjects')

\* C24 as stated: finalize calls compose only with every index 0..n-1
\* present in the object store and passes the chunks in ascending index
\* order; it creates the Video and marks the session completed only when the
\* composed object exists and has nonzero size.
C24_Claim == [][ComposeVerified]_vars

\* ------------------------------------------- claims on the finalize trigger
\* A successful finalize answers while its trigger fetch is still in flight;
\* a trigger that is not accepted marks its video analysis_failed with an
\* error message.
TriggerFailureRecorded ==
  /\ \A o \in ComposeOutcomes :
       (resp'.op = "finalize" /\ resp'.code = 200 /\ OwnerFinalize(o)) =>
         /\ resp'.status = "uploaded"
         /\ resp'.videoId \in triggerPending'
         /\ videos'[resp'.videoId].status = "uploaded"
  /\ \A v \in 1..MaxCompose :
       (v \in triggerPending /\ TriggerSettles(v, FALSE)) =>
         /\ videos'[v].status = "analysis_failed"
         /\ videos'[v].analysisError

MarkedFailed(v) ==
  IF v \in 1..Len(videos)
    THEN videos[v].status = "analysis_failed" /\ videos[v].analysisError
    ELSE FALSE

DerivedStatus(n, completed, failed) ==
  IF (0..(n - 1)) \subseteq completed THEN "uploading_complete"
  ELSE IF failed # {} THEN "uploading_with_errors"
  ELSE "uploading"

\* C26 as stated: after a report the session status is uploading_complete
\* exactly when every index 0..totalChunks-1 is in the completed set,
\* otherwise uploading_with_errors exactly when the failed set is not empty,
\* otherwise uploading; the progress is the completed count over the total
\* as a percentage, to the nearest whole number.
C26_Claim ==
  (resp.op = "report" /\ resp.code = 200) =>
    LET n == session.totalChunks
        completed == Range(session.chunksCompleted)
        d == resp.progress * n - 100 * Cardinality(completed)
    IN /\ session.status = DerivedStatus(n, completed, Range(session.chunksFailed))
       /\ resp.status = session.status
       /\ 2 * d <= n
       /\ -2 * d <= n

\* ------------------------------------------------ claims on repeated reports
\* What C27 requires of a step that handles the owner's report of index i.
ReportIdempotent ==
  \A i \in ChunkInputs, st \in {"completed", "failed"} :
    (resp'.op = "report" /\ resp'.code = 200
       /\ ReportChunkStatus(Owner, "s1", i, st)) =>
      LET cc == Range(session.chunksCompleted)
          cf == Range(session.chunksFailed)
          target == IF st = "completed" THEN cc ELSE cf
          other == IF st = "completed" THEN cf ELSE cc
      IN /\ (i \in target /\ i \notin other =>
               /\ session'.chunksCompleted = session.chunksCompleted
               /\ session'.chunksFailed = session.chunksFailed
               /\ session'.progress = session.progress
               /\ session'.status = session.status
               /\ resp'.status = session.status)
         /\ (i \in other =>
               /\ Range(session'.chunksCompleted) =
                    IF st = "completed" THEN cc \cup {i} ELSE cc \ {i}
               /\ Range(session'.chunksFailed) =
                    IF st = "completed" THEN cf \ {i} ELSE cf \cup {i})
         /\ Len(session'.chunksCompleted) = Cardinality(Range(session'.chunksCompleted))
         /\ Len(session'.chunksFailed) = Cardinality(Range(session'.chunksFailed))

\* C27: a report that repeats the status an index already has leaves the
\* completed array, the failed array, the progress and the status as they
\* were; a report of the opposite status moves the index from one array to
\* the other; no index is stored twice.
C27_ReportIdempotent == [][ReportIdempotent]_vars

\* A report was answered on a session in which reports of both statuses
\* have been stored.
C27_Witness ==
  /\ resp.op = "report"
  /\ resp.code = 200
  /\ session.chunksCompleted = <<1>>
  /\ session.chunksFailed = <<0>>
  /\ session.status = "uploading_with_errors"

\* ---------------------------------------------------------- claims on retry
TerminalVideoStatuses ==
  {"analysis_complete", "analysis_partial", "analysis_failed"}

\* C28 as stated: a Video that the owner's retry has set to queued is
\* analyzing at some later time, and an analyzing Video reaches a terminal
\* status.
C28_Claim ==
  /\ (vdoc.status = "queued") ~> (vdoc.status = "analyzing")
  /\ (vdoc.status = "analyzing") ~> (vdoc.status \in TerminalVideoStatuses)

\* ------------------------------------------- claims on terminal sessions
TerminalSessionStatuses == {"completed", "failed"}

\* C29 as stated: no step changes the status of a session that is completed
\* or failed.
C29_Claim ==
  [][session.status \in TerminalSessionStatuses
       => session'.status = session.status]_vars

\* ------------------------------------------------ claims on the uploader
\* C30 as stated: at no time are more chunk uploads in flight than the
\* concurrency limit min(3, totalChunks).
C30_Claim == Cardinality(InFlight) <= ConcurrentLimit(upTotal)

\* ------------------------------------------------ claims on concurrency
\* Both report requests have returned, they were `completed` reports and
\* they named different chunk indices of the session.
BothCompletedReturned ==
  /\ \A r \in Reporters : /\ repPc[r] = "returned"
                          /\ repArg[r][2] = "completed"
                          /\ repArg[r][1] < session.totalChunks
  /\ repArg[1][1] # repArg[2][1]

\* C31 as stated: once two `completed` reports of different chunk indices
\* have both returned, in whatever order their steps were interleaved, both
\* indices are in the stored completed array and the stored progress counts
\* both.
C31_Claim ==
  BothCompletedReturned =>
    /\ {repArg[1][1], repArg[2][1]} \subseteq Range(session.chunksCompleted)
    /\ session.progress = ReportProgress(<<repArg[1][1], repArg[2][1]>>,
                                         session.totalChunks)

\* The video documents that reference the session.
SessionVideos == {v \in 1..Len(videos) : videos[v].uploadSessionId = "s1"}

\* C32 as stated: however many finalize requests the session receives,
\* bucket.combine is called at most once for it and at most one video
\* document references it.
C32_Claim ==
  /\ composeCalls <= 1
  /\ Cardinality(SessionVideos) <= 1

\* C33 as stated: whatever trigger requests the video receives, at most one
\* invocation of processVideoInBackground for it is executing at any time.
C33_Claim == Cardinality(Executing) <= 1

\* ------------------------------------------ claims on a segment's results
\* One of the two calls of the segment has thrown.
CallFailed == audioCall = "failed" \/ visualCall = "failed"

\* The document is a placeholder of stage 8, whenever it was written.
HoldsPlaceholder == \E t \in 0..MaxClock : segDoc = PlaceholderData(t)

\* Once a call of the segment has failed, no step changes the document.
FailedSegmentUntouched == CallFailed' => segDoc' = segDoc

\* C34: when the audio call or the visual call of a segment fails, stage 9
\* writes nothing to the segment's document: it stays exactly the
\* placeholder of stage 8, also when the other call returned a result.
C34_AllOrNothing ==
  /\ [](CallFailed => HoldsPlaceholder)
  /\ [][FailedSegmentUntouched]_vars

\* The audio call failed, the visual call returned a result, and the update
\* callback has run for the segment.
C34_Witness ==
  /\ audioCall = "failed"
  /\ visualCall \in VisualResults
  /\ segResult = "skipped"

\* -------------------------------------------- claims on a failed compose
\* What C35 requires of a finalize request whose compose fails.
ComposeFailureStep ==
  \A o \in {"throws", "absent"} :
    (resp'.op = "finalize" /\ composeCalls' # composeCalls /\ OwnerFinalize(o)) =>
      /\ resp'.code = 500
      /\ session'.status = "failed"
      /\ session'.error
      /\ videos' = videos
      /\ finalObjects' = finalObjects
      /\ chunkStore' = chunkStore
      /\ cleanupQueue' = cleanupQueue
      /\ triggerPending' = triggerPending

AtFinalStatus == pc = "batch" /\ chunkIndex >= NumBatches(Len(segments))

\* C36: when a run computes its final status every segment has been counted
\* exactly once, as succeeded when its results were stored and as failed
\* otherwise, so that successfulSegments + failedSegments is the number of
\* segments; the terminal update persists these two counts and
\* analysisProgress 100.
C36_CountsComplete ==
  /\ AtFinalStatus =>
       /\ successfulSegments = Cardinality(Stored)
       /\ failedSegments = Len(segments) - Cardinality(Stored)
       /\ successfulSegments + failedSegments = Len(segments)
  /\ Finished =>
       /\ vdoc.analysisProgress = 100
       /\ vdoc.summary.kind = "result"
       /\ vdoc.summary.segmentCount = Len(segments)
       /\ vdoc.summary.successfulSegments = Cardinality(Stored)
       /\ vdoc.summary.failedSegments = Len(segments) - Cardinality(Stored)

\* A run of three segments has made its terminal update: two segments
\* counted as succeeded, one as failed.
C36_Witness ==
  /\ Finished
  /\ Len(segments) = 3
  /\ vdoc.analysisProgress = 100
  /\ vdoc.summary.successfulSegments = 2
  /\ vdoc.summary.failedSegments = 1

\* ------------------------------------------- claims on the segment count
\* C37 as stated: the segment count stored on the video in stage 5 is the
\* number of segments that segmentVideo creates in stage 6, the number of
\* placeholder documents written, and the segmentCount of the final summary.
C37_Claim ==
  /\ ("segment" \in started /\ err # "segment") =>
       vdoc.segmentCount = Len(segments)
  /\ (Len(segDocs) > 0 => Len(segDocs) = vdoc.segmentCount)
  /\ (Finished => vdoc.summary.segmentCount = vdoc.segmentCount)

\* ---------------------------------------- claims on the reported indices
\* C38 as stated: whatever chunk index and status the reports carry, every
\* index in the stored completed and failed arrays is one of 0..totalChunks-1,
\* the completed count is at most totalChunks, and the stored and the
\* returned progress lie within 0..100.
C38_Claim ==
  /\ Range(session.chunksCompleted) \cup Range(session.chunksFailed) \subseteq Expected
  /\ Len(session.chunksCompleted) <= session.totalChunks
  /\ session.progress \in 0..100
  /\ (resp.op = "report" /\ resp.code = 200 => resp.progress \in 0..100)

\* ------------------------------------- claims on resume and the reports
\* C39 as stated: when resume has answered 200, the completed array that the
\* next progress report reads and extends, chunksCompleted, holds exactly the
\* chunk indices that resume found present in the object store.
C39_Claim ==
  (resp.op = "resume" /\ resp.code = 200) =>
    Range(session.chunksCompleted) = Range(resp.existing)

\* ------------------------------------------ claims on the video's object
\* C40 as stated: for every supported file type and file name the path that
\* the download stage reads for a video is the storage location at which
\* finalize composed and recorded it, so the download finds the object.
C40_Claim ==
  download.videoId # 0 =>
    /\ download.source = pathDocs[download.videoId].storageLocation
    /\ download.found

====
